---- MODULE Spec2Model ----
(***************************************************************************)
(* weekly-flow: the report document parser, merger and renderer of         *)
(* src/storage.py and the store they write to.                             *)
(*                                                                         *)
(* A Python str is a sequence of characters, each character a one-element  *)
(* TLA+ string; a text is such a sequence with "\n" between its lines.     *)
(* The two CJK characters of the reserved label are written "Qi" and "Ta". *)
(***************************************************************************)
EXTENDS Integers, Sequences, FiniteSets, TLC

VARIABLES
    pc,         \* which operation ran last
    existing,   \* _merge_sections: the existing sections
    incoming,   \* _merge_sections: the new sections
    merged,     \* _merge_sections: the result
    nmerges,    \* number of successive merges done
    file,       \* the stored report of one period: a text, or NoFile
    content,    \* the content handed to the last save_report
    saved,      \* every content handed to save_report since the file was created
    before,     \* the file as it was before the last save_report
    nsaves,     \* number of save_report calls made
    kind,       \* the period is a week (save_report) or a date range (save_period_report)
    X,          \* round trip: the sections handed to the renderer
    rendered,   \* round trip: the rendered text
    parsed,     \* round trip: the parser's result on the rendered text
    wpc,        \* two concurrent saves: the step each writer is at
    wcontent,   \* two concurrent saves: the content each writer saves
    wexisting,  \* two concurrent saves: the text each writer read from the path
    overlap,    \* history: a writer took a step while the other was between
                \* its exists-check and its write
    commitList, \* generator: the commits handed to the operation
    supplementList, \* generator: the supplements handed to generate_report
    filteredList, \* generator: the result of filter_trivial_commits
    entryList,  \* generator: the result of merge_related_commits
    reportText, \* generator: the result of generate_report
    commitMessage, \* summarize_commit: the commit message
    summaryText, \* summarize_commit: the result
    parsedCommit, \* parse_commit_message: the result
    keywordList, \* extract_keywords: the result
    keyText,    \* merge_related_commits: the key of the commit
    config,     \* the configuration: its repositories
    configBefore, \* the configuration before the last call
    opName,     \* the name handed to the last add_repo or remove_repo
    opPath,     \* the path handed to the last add_repo
    nops,       \* number of add_repo and remove_repo calls made
    docText,    \* the text handed to _parse_report_markdown
    docParsed,  \* the result of _parse_report_markdown on it
    heap,       \* the entry objects and details lists, by address
    heapBefore, \* the heap before the call of _merge_sections
    argExisting, \* _merge_sections: the existing sections, entries by address
    argNew,     \* _merge_sections: the new sections, entries by address
    resultRef   \* _merge_sections: the returned sections, entries by address

mergeVars == <<existing, incoming, merged, nmerges>>
storeVars == <<file, content, saved, before, nsaves, kind>>
tripVars == <<X, rendered, parsed>>
raceVars == <<wpc, wcontent, wexisting, overlap>>
genVars == <<commitList, supplementList, filteredList, entryList, reportText>>
sumVars == <<commitMessage, summaryText>>
parseVars == <<parsedCommit, keywordList, keyText>>
confVars == <<config, configBefore, opName, opPath, nops>>
docVars == <<docText, docParsed>>
heapVars == <<heap, heapBefore, argExisting, argNew, resultRef>>
moreVars == <<parseVars, confVars, docVars, heapVars>>
vars == <<pc, mergeVars, storeVars, tripVars, raceVars, genVars, sumVars, moreVars>>

----------------------------------------------------------------------------
(* Characters and strings                                                  *)

NL == "\n"
SP == " "

\* str.isspace for the characters of the model's alphabet
IsSpace(c) == c \in {SP, NL, "\t"}

RECURSIVE lstrip(_)
lstrip(s) ==
    IF s # <<>> /\ IsSpace(Head(s)) THEN lstrip(Tail(s)) ELSE s

RECURSIVE rstrip(_)
rstrip(s) ==
    IF s # <<>> /\ IsSpace(s[Len(s)]) THEN rstrip(SubSeq(s, 1, Len(s) - 1)) ELSE s

\* str.strip()
strip(s) == rstrip(lstrip(s))

\* str.startswith(prefix)
startswith(s, prefix) ==
    Len(s) >= Len(prefix) /\ SubSeq(s, 1, Len(prefix)) = prefix

\* str.endswith(suffix)
endswith(s, suffix) ==
    Len(s) >= Len(suffix) /\ SubSeq(s, Len(s) - Len(suffix) + 1, Len(s)) = suffix

\* s[n:]
DropFirst(s, n) == IF n >= Len(s) THEN <<>> ELSE SubSeq(s, n + 1, Len(s))

\* str.splitlines(): the pieces between line breaks, without a last empty piece
RECURSIVE SplitFrom(_, _)
SplitFrom(text, cur) ==
    IF text = <<>> THEN (IF cur = <<>> THEN <<>> ELSE <<cur>>)
    ELSE IF Head(text) = NL THEN <<cur>> \o SplitFrom(Tail(text), <<>>)
    ELSE SplitFrom(Tail(text), Append(cur, Head(text)))

splitlines(text) == SplitFrom(text, <<>>)

\* "\n".join(lines)
RECURSIVE join(_)
join(lines) ==
    IF lines = <<>> THEN <<>>
    ELSE IF Len(lines) = 1 THEN lines[1]
    ELSE lines[1] \o <<NL>> \o join(Tail(lines))

HeadingMark == <<"#">>
EntryMark == <<SP, SP, "-", SP>>
DetailMark == <<SP, SP, SP, SP, "-", SP>>
OtherLabel == <<"Qi", "Ta">>

----------------------------------------------------------------------------
(* Documents: sections is an ordered mapping label -> entries, kept as a   *)
(* sequence of [label, entries] with distinct labels (a Python dict keeps  *)
(* insertion order); an entry is a ReportEntry.                            *)

ReportEntry(summary, details) == [summary |-> summary, details |-> details]

Labels(sections) == [i \in 1..Len(sections) |-> sections[i].label]

\* index of the section with this label, 0 when absent
IndexOf(sections, label) ==
    IF \E i \in 1..Len(sections) : sections[i].label = label
    THEN CHOOSE i \in 1..Len(sections) : sections[i].label = label
    ELSE 0

\* sections[label] = []: a label that comes again starts its section over
setdefault_reset(sections, label) ==
    IF IndexOf(sections, label) # 0
    THEN [sections EXCEPT ![IndexOf(sections, label)].entries = <<>>]
    ELSE Append(sections, [label |-> label, entries |-> <<>>])

\* dict.setdefault(label, [])
setdefault(sections, label) ==
    IF IndexOf(sections, label) # 0 THEN sections
    ELSE Append(sections, [label |-> label, entries |-> <<>>])

ParseStart ==
    [preamble |-> <<>>, sections |-> <<>>, current_section |-> 0,
     current_entry |-> 0, started_sections |-> FALSE]

\* appends a detail to the current entry (an object held in the sections)
AppendDetail(st, detail) ==
    LET s == st.current_section
        e == st.current_entry
    IN [st EXCEPT !.sections[s].entries[e].details = Append(@, detail)]

\* the loop without its last branch: an indented line that is no bullet is skipped
ParseLine_strict(st, line) ==
    IF strip(line) = <<>> THEN
        IF ~st.started_sections
        THEN [st EXCEPT !.preamble = Append(@, line)]
        ELSE st
    ELSE IF startswith(line, HeadingMark) /\ ~st.started_sections THEN
        [st EXCEPT !.preamble = Append(@, line)]
    ELSE IF ~startswith(line, <<SP>>) THEN
        LET secs == setdefault(st.sections, strip(line))
        IN [st EXCEPT !.started_sections = TRUE,
                      !.sections = secs,
                      !.current_section = IndexOf(secs, strip(line)),
                      !.current_entry = 0]
    ELSE IF startswith(line, EntryMark) THEN
        LET secs == IF st.current_section = 0
                    THEN setdefault(st.sections, OtherLabel)
                    ELSE st.sections
            s == IF st.current_section = 0
                 THEN IndexOf(secs, OtherLabel)
                 ELSE st.current_section
            entry == ReportEntry(strip(DropFirst(line, 4)), <<>>)
        IN [st EXCEPT !.started_sections =
                          IF st.current_section = 0 THEN TRUE ELSE @,
                      !.sections = [secs EXCEPT ![s].entries = Append(@, entry)],
                      !.current_section = s,
                      !.current_entry = Len(secs[s].entries) + 1]
    ELSE IF startswith(line, DetailMark) /\ st.current_entry # 0 THEN
        AppendDetail(st, strip(DropFirst(line, 6)))
    ELSE st

\* one iteration of the parser's loop over the lines
ParseLine(st, line) ==
    IF strip(line) = <<>> THEN
        IF ~st.started_sections
        THEN [st EXCEPT !.preamble = Append(@, line)]
        ELSE st
    ELSE IF startswith(line, HeadingMark) /\ ~st.started_sections THEN
        [st EXCEPT !.preamble = Append(@, line)]
    ELSE IF ~startswith(line, <<SP>>) THEN
        LET secs == setdefault(st.sections, strip(line))
        IN [st EXCEPT !.started_sections = TRUE,
                      !.sections = secs,
                      !.current_section = IndexOf(secs, strip(line)),
                      !.current_entry = 0]
    ELSE IF startswith(line, EntryMark) THEN
        LET secs == IF st.current_section = 0
                    THEN setdefault(st.sections, OtherLabel)
                    ELSE st.sections
            s == IF st.current_section = 0
                 THEN IndexOf(secs, OtherLabel)
                 ELSE st.current_section
            entry == ReportEntry(strip(DropFirst(line, 4)), <<>>)
        IN [st EXCEPT !.started_sections =
                          IF st.current_section = 0 THEN TRUE ELSE @,
                      !.sections = [secs EXCEPT ![s].entries = Append(@, entry)],
                      !.current_section = s,
                      !.current_entry = Len(secs[s].entries) + 1]
    ELSE IF startswith(line, DetailMark) /\ st.current_entry # 0 THEN
        AppendDetail(st, strip(DropFirst(line, 6)))
    ELSE IF st.current_entry # 0 /\ startswith(line, <<SP>>) THEN
        AppendDetail(st, strip(line))
    ELSE st

RECURSIVE ParseLines(_, _)
ParseLines(st, lines) ==
    IF lines = <<>> THEN st
    ELSE ParseLines(ParseLine(st, Head(lines)), Tail(lines))

_parse_report_markdown(text) ==
    LET st == ParseLines(ParseStart, splitlines(text))
    IN [preamble |-> st.preamble, sections |-> st.sections]

RECURSIVE DedupeFrom(_, _, _)
DedupeFrom(items, seen, result) ==
    IF items = <<>> THEN result
    ELSE LET key == strip(Head(items))
         IN IF key = <<>> \/ key \in seen
            THEN DedupeFrom(Tail(items), seen, result)
            ELSE DedupeFrom(Tail(items), seen \cup {key}, Append(result, key))

_dedupe_preserve_order(items) == DedupeFrom(items, {}, <<>>)

\* by_summary[summary]: the dict comprehension keeps, for a summary, the last
\* entry of the section bearing it, and an entry appended later is registered
\* under a summary no entry bore; 0 when absent
BySummary(entries, summary) ==
    IF \E i \in 1..Len(entries) : entries[i].summary = summary
    THEN CHOOSE i \in 1..Len(entries) :
            /\ entries[i].summary = summary
            /\ \A j \in (i + 1)..Len(entries) : entries[j].summary # summary
    ELSE 0

\* MergeEntries with the details of a matching entry replaced by the incoming ones
RECURSIVE MergeEntries_replace(_, _)
MergeEntries_replace(target, news) ==
    IF news = <<>> THEN target
    ELSE LET entry == Head(news)
             i == BySummary(target, entry.summary)
         IN IF i # 0
            THEN MergeEntries_replace(
                     [target EXCEPT ![i].details =
                         _dedupe_preserve_order(entry.details)],
                     Tail(news))
            ELSE MergeEntries_replace(
                     Append(target, ReportEntry(entry.summary, entry.details)),
                     Tail(news))

\* MergeEntries with the incoming details put ahead of the existing ones
RECURSIVE MergeEntries_newfirst(_, _)
MergeEntries_newfirst(target, news) ==
    IF news = <<>> THEN target
    ELSE LET entry == Head(news)
             i == BySummary(target, entry.summary)
         IN IF i # 0
            THEN MergeEntries_newfirst(
                     [target EXCEPT ![i].details =
                         _dedupe_preserve_order(entry.details \o @)],
                     Tail(news))
            ELSE MergeEntries_newfirst(
                     Append(target, ReportEntry(entry.summary, entry.details)),
                     Tail(news))

\* the loop over the entries of an incoming section already in merged
RECURSIVE MergeEntries(_, _)
MergeEntries(target, news) ==
    IF news = <<>> THEN target
    ELSE LET entry == Head(news)
             i == BySummary(target, entry.summary)
         IN IF i # 0
            THEN MergeEntries(
                     [target EXCEPT ![i].details =
                         _dedupe_preserve_order(@ \o entry.details)],
                     Tail(news))
            ELSE MergeEntries(
                     Append(target, ReportEntry(entry.summary, entry.details)),
                     Tail(news))

\* MergeNew with a section that is new put ahead of the existing ones
RECURSIVE MergeNew_front(_, _)
MergeNew_front(m, new) ==
    IF new = <<>> THEN m
    ELSE LET sec == Head(new)
             i == IndexOf(m, sec.label)
         IN IF i = 0
            THEN MergeNew_front(<<sec>> \o m, Tail(new))
            ELSE MergeNew_front(
                     [m EXCEPT ![i].entries = MergeEntries(@, sec.entries)],
                     Tail(new))

\* the loop over the incoming sections
RECURSIVE MergeNew(_, _)
MergeNew(m, new) ==
    IF new = <<>> THEN m
    ELSE LET sec == Head(new)
             i == IndexOf(m, sec.label)
         IN IF i = 0
            THEN MergeNew(Append(m, sec), Tail(new))
            ELSE MergeNew(
                     [m EXCEPT ![i].entries = MergeEntries(@, sec.entries)],
                     Tail(new))

\* the final pass left out
DedupeAll_skip(m) == m

\* the final pass
DedupeAll(m) ==
    [i \in 1..Len(m) |->
        [label |-> m[i].label,
         entries |-> [j \in 1..Len(m[i].entries) |->
            ReportEntry(m[i].entries[j].summary,
                        _dedupe_preserve_order(m[i].entries[j].details))]]]

_merge_sections(exist, new) == DedupeAll(MergeNew(exist, new))

\* the lines of one section
RECURSIVE EntryLines(_)
EntryLines(entries) ==
    IF entries = <<>> THEN <<>>
    ELSE <<EntryMark \o Head(entries).summary>>
         \o [k \in 1..Len(Head(entries).details) |->
                DetailMark \o Head(entries).details[k]]
         \o EntryLines(Tail(entries))

RECURSIVE SectionLines(_)
SectionLines(sections) ==
    IF sections = <<>> THEN <<>>
    ELSE <<Head(sections).label>> \o EntryLines(Head(sections).entries) \o <<<<>>>>
         \o SectionLines(Tail(sections))

\* while lines and not lines[-1].strip(): lines.pop()
RECURSIVE PopBlank(_)
PopBlank(lines) ==
    IF lines # <<>> /\ strip(lines[Len(lines)]) = <<>>
    THEN PopBlank(SubSeq(lines, 1, Len(lines) - 1))
    ELSE lines

_render_report_markdown(preamble, sections) ==
    LET head == IF preamble # <<>> /\ strip(preamble[Len(preamble)]) # <<>>
                THEN Append(preamble, <<>>)
                ELSE preamble
    IN join(PopBlank(head \o SectionLines(sections))) \o <<NL>>

\* merge_report_content with the preamble of the new document preferred
merge_report_content_newpre(exist, new) ==
    LET e0 == _parse_report_markdown(exist)
        n0 == _parse_report_markdown(new)
        preamble == IF n0.preamble # <<>> THEN n0.preamble ELSE e0.preamble
    IN _render_report_markdown(preamble, _merge_sections(e0.sections, n0.sections))

merge_report_content(exist, new) ==
    LET e == _parse_report_markdown(exist)
        n == _parse_report_markdown(new)
        preamble == IF e.preamble # <<>> THEN e.preamble ELSE n.preamble
    IN _render_report_markdown(preamble, _merge_sections(e.sections, n.sections))

NoFile == <<"NoFile">>

\* save_report that writes the new content over the stored one
WriteReport_overwrite(stored, text) ==
    IF endswith(text, <<NL>>) THEN text ELSE text \o <<NL>>

\* what save_report and save_period_report write at the path: the merge when
\* the path exists, else the content, with a newline added when it ends with none
WriteReport(stored, text) ==
    IF stored # NoFile
    THEN merge_report_content(stored, text)
    ELSE IF endswith(text, <<NL>>) THEN text ELSE text \o <<NL>>

\* the title line "# <Zhou><Bao> (date_range)" and the blank line after it
Header(date_range) ==
    <<"#", SP, "Zhou", "Bao", SP, "(">> \o date_range \o <<")", NL, NL>>

\* generate_full_report, from the result of generate_report on
\* all the commits and the supplements
generate_full_report(report, date_range) ==
    IF date_range # <<>> THEN Header(date_range) \o report ELSE report

----------------------------------------------------------------------------
(* Inputs of the merge                                                     *)

Range(f) == {f[i] : i \in DOMAIN f}

\* entries in all the sections of one document, at most
MaxEntries == 2
\* successive merges into one document, at most
MaxMerges == 2

A == <<"A">>
B == <<"B">>
C == <<"C">>
x == <<"x">>
y == <<"y">>
d == <<"d">>
e == <<"e">>

Section(label, entries) == [label |-> label, entries |-> entries]

LabelPool == {A, B}

\* entries as the parser returns them, one of them with a stale duplicate and
\* a blank detail, and one whose detail is not trimmed
EntryPool ==
    { ReportEntry(x, <<d>>),
      ReportEntry(x, <<e, <<SP, "d">> >>),
      ReportEntry(y, <<d, <<>>, d>>),
      ReportEntry(y, <<>>) }

EntrySeqs(n) == UNION {[1..k -> EntryPool] : k \in 0..n}

Docs ==
    {<<>>}
    \cup {<<Section(l, es)>> : l \in LabelPool, es \in EntrySeqs(MaxEntries)}
    \cup {<<Section(p[1], q[1]), Section(p[2], q[2])>> :
            p \in {r \in LabelPool \X LabelPool : r[1] # r[2]},
            q \in {r \in EntrySeqs(MaxEntries) \X EntrySeqs(MaxEntries) :
                       Len(r[1]) + Len(r[2]) <= MaxEntries}}

\* documents of up to three sections, in every order, with few entries
WideLabels == {A, B, C}

FewEntries == {<<>>, <<ReportEntry(x, <<>>)>>}

WideDocs ==
    {<<>>}
    \cup {<<Section(l, es)>> : l \in WideLabels, es \in FewEntries}
    \cup {<<Section(p[1], q[1]), Section(p[2], q[2])>> :
            p \in {r \in WideLabels \X WideLabels : r[1] # r[2]},
            q \in FewEntries \X FewEntries}
    \cup {<<Section(p[1], <<>>), Section(p[2], es), Section(p[3], <<>>)>> :
            p \in {r \in WideLabels \X WideLabels \X WideLabels :
                       r[1] # r[2] /\ r[1] # r[3] /\ r[2] # r[3]},
            es \in FewEntries}

IdleStore ==
    /\ file = NoFile /\ content = <<>> /\ saved = {} /\ before = NoFile
    /\ nsaves = 0 /\ kind = "week"
IdleTrip ==
    X = <<>> /\ rendered = <<>> /\ parsed = [preamble |-> <<>>, sections |-> <<>>]
IdleMerge == existing = <<>> /\ incoming = <<>> /\ merged = <<>> /\ nmerges = 0
IdleRace ==
    /\ wpc = <<"done", "done">> /\ wcontent = <<<<>>, <<>>>>
    /\ wexisting = <<<<>>, <<>>>> /\ overlap = FALSE
IdleGen ==
    /\ commitList = <<>> /\ supplementList = [none |-> TRUE, items |-> <<>>]
    /\ filteredList = <<>> /\ entryList = <<>> /\ reportText = <<>>
IdleSum == commitMessage = <<>> /\ summaryText = <<>>
IdleParse ==
    /\ parsedCommit = [type |-> <<"o", "t", "h", "e", "r">>, scope |-> [none |-> TRUE, text |-> <<>>],
                       description |-> <<>>, is_trivial |-> FALSE]
    /\ keywordList = <<>> /\ keyText = <<>>
IdleConf ==
    /\ config = [repos |-> <<>>] /\ configBefore = [repos |-> <<>>]
    /\ opName = <<>> /\ opPath = <<>> /\ nops = 0
IdleDoc == docText = <<>> /\ docParsed = [preamble |-> <<>>, sections |-> <<>>]
IdleHeap ==
    /\ heap = <<>> /\ heapBefore = <<>>
    /\ argExisting = <<>> /\ argNew = <<>> /\ resultRef = <<>>
IdleMore == IdleParse /\ IdleConf /\ IdleDoc /\ IdleHeap
IdleOthers == IdleRace /\ IdleGen /\ IdleSum

----------------------------------------------------------------------------
(* One merge of two documents: SpecMerge                                   *)

MergeInit ==
    /\ pc = "init"
    /\ existing \in Docs
    /\ incoming \in Docs
    /\ merged = <<>>
    /\ nmerges = 0
    /\ IdleStore
    /\ IdleTrip
    /\ IdleOthers
    /\ IdleMore

\* merged = _merge_sections(existing, incoming)
Merge ==
    /\ pc = "init"
    /\ merged' = _merge_sections(existing, incoming)
    /\ nmerges' = 1
    /\ pc' = "merged"
    /\ UNCHANGED <<existing, incoming, storeVars, tripVars, raceVars, genVars, sumVars, moreVars>>

\* merged = _merge_sections(D, D), a document with an identical copy of itself
MergeSelf ==
    /\ pc = "init"
    /\ incoming' = existing
    /\ merged' = _merge_sections(existing, existing)
    /\ nmerges' = 1
    /\ pc' = "self"
    /\ UNCHANGED <<existing, storeVars, tripVars, raceVars, genVars, sumVars, moreVars>>

MergeNext == Merge \/ MergeSelf

SpecMerge == MergeInit /\ [][MergeNext]_vars

----------------------------------------------------------------------------
(* Successive merges into one document: SpecChain                          *)

ChainInit ==
    /\ pc = "init"
    /\ existing = <<>>
    /\ incoming = <<>>
    /\ merged \in WideDocs
    /\ nmerges = 0
    /\ IdleStore
    /\ IdleTrip
    /\ IdleOthers
    /\ IdleMore

\* the document merged so far is the existing one of the next merge
ChainMerge ==
    /\ nmerges < MaxMerges
    /\ \E new \in WideDocs :
        /\ existing' = merged
        /\ incoming' = new
        /\ merged' = _merge_sections(merged, new)
    /\ nmerges' = nmerges + 1
    /\ pc' = "chained"
    /\ UNCHANGED <<storeVars, tripVars, raceVars, genVars, sumVars, moreVars>>

SpecChain == ChainInit /\ [][ChainMerge]_vars

----------------------------------------------------------------------------
(* The stored report of one period: SpecStore                              *)

\* save_report calls for the period, at most
MaxSaves == 2

Title == <<"#", SP, "T">>
Title2 == <<"#", SP, "U">>
Blank == <<>>
Ex == EntryMark \o x
Ey == EntryMark \o y
Dd == DetailMark \o d
De == DetailMark \o e

\* results of generate_report: the sections joined by a blank line, the
\* supplements under the reserved label, the empty string for nothing to report
GeneratedReports ==
    { <<>>,
      join(<<A, Ex>>),
      join(<<A, Ex, Dd, De>>),
      join(<<A, Ey, Blank, B, Ex>>),
      join(<<B, Ey, Blank, OtherLabel, Ex>>),
      join(<<OtherLabel, Ey>>) }

DateRanges == {<<>>, <<"r">>}

GeneratedContents ==
    {generate_full_report(r, dr) : r \in GeneratedReports, dr \in DateRanges}

\* other contents: stored documents edited by hand
EditedContents ==
    { join(<<A, Ey>>) \o <<NL>>,
      join(<<Title2, Blank, A, Ex, De, <<SP, SP, SP, "z">> >>) \o <<NL>>,
      join(<<Blank, B, Ey>>) \o <<NL>>,
      join(<<Ex, Dd>>) \o <<NL>>,
      join(<<Title2>>) \o <<NL>>,
      join(<<Title, Title2, A, Ex, Ex, Dd, A, Ey \o <<SP>> >>),
      join(<<A \o <<SP>>, Dd, Ey, DetailMark, Dd, B, <<"#", "B">>, Ex>>) \o <<NL, NL>>,
      join(<<A, Ex, Blank, Title, B, Ey>>) }

Contents == GeneratedContents \cup EditedContents

StoreInit ==
    /\ pc = "init"
    /\ file = NoFile
    /\ content = <<>>
    /\ saved = {}
    /\ before = NoFile
    /\ nsaves = 0
    /\ kind \in {"week", "period"}
    /\ IdleMerge
    /\ IdleTrip
    /\ IdleOthers
    /\ IdleMore

Save(text) ==
    /\ nsaves < MaxSaves
    /\ before' = file
    /\ content' = text
    /\ file' = WriteReport(file, text)
    /\ saved' = saved \cup {text}
    /\ nsaves' = nsaves + 1
    /\ pc' = IF file # NoFile THEN "merged" ELSE "created"
    /\ UNCHANGED <<kind, mergeVars, tripVars, raceVars, genVars, sumVars, moreVars>>

\* save_report(content, year, week)
SaveReport == kind = "week" /\ \E text \in Contents : Save(text)

\* save_period_report(content, start_date, end_date)
SavePeriodReport == kind = "period" /\ \E text \in Contents : Save(text)

Delete ==
    /\ file # NoFile
    /\ before' = file
    /\ file' = NoFile
    /\ saved' = {}
    /\ pc' = "deleted"
    /\ UNCHANGED <<content, nsaves, kind, mergeVars, tripVars, raceVars, genVars, sumVars, moreVars>>

\* delete_report(year, week)
DeleteReport == kind = "week" /\ Delete

\* delete_period_report(start_date, end_date)
DeletePeriodReport == kind = "period" /\ Delete

StoreNext == SaveReport \/ SavePeriodReport \/ DeleteReport \/ DeletePeriodReport

SpecStore == StoreInit /\ [][StoreNext]_vars

----------------------------------------------------------------------------
(* Rendering sections and parsing the text back: SpecTrip                  *)

TripLabels == {A, B, <<"#", "B">>}

TripEntries ==
    { ReportEntry(x, <<>>), ReportEntry(x, <<d, e>>), ReportEntry(y, <<d>>) }

\* a section of the generator has at least one entry
TripEntrySeqs == UNION {[1..k -> TripEntries] : k \in 1..MaxEntries}

TripDocs ==
    {<<>>}
    \cup {<<Section(l, es)>> : l \in TripLabels, es \in TripEntrySeqs}
    \cup {<<Section(p[1], q[1]), Section(p[2], q[2])>> :
            p \in {r \in TripLabels \X TripLabels : r[1] # r[2]},
            q \in TripEntrySeqs \X TripEntrySeqs}

TripInit ==
    /\ pc = "init"
    /\ X \in TripDocs
    /\ rendered = <<>>
    /\ parsed = [preamble |-> <<>>, sections |-> <<>>]
    /\ IdleMerge
    /\ IdleStore
    /\ IdleOthers
    /\ IdleMore

Render ==
    /\ pc = "init"
    /\ rendered' = _render_report_markdown(<<>>, X)
    /\ pc' = "rendered"
    /\ UNCHANGED <<X, parsed, mergeVars, storeVars, raceVars, genVars, sumVars, moreVars>>

Parse ==
    /\ pc = "rendered"
    /\ parsed' = _parse_report_markdown(rendered)
    /\ pc' = "parsed"
    /\ UNCHANGED <<X, rendered, mergeVars, storeVars, raceVars, genVars, sumVars, moreVars>>

TripNext == Render \/ Parse

SpecTrip == TripInit /\ [][TripNext]_vars

----------------------------------------------------------------------------
(* What the claims about the merge speak of                                *)

Summaries(entries) == {entries[i].summary : i \in 1..Len(entries)}

CountSummary(entries, summary) ==
    Cardinality({i \in 1..Len(entries) : entries[i].summary = summary})

\* the last entry bearing a summary, the one a later entry of that summary
\* is merged into
LastBearing(entries, summary) ==
    CHOOSE i \in 1..Len(entries) :
        /\ entries[i].summary = summary
        /\ \A j \in 1..Len(entries) : entries[j].summary = summary => j <= i

\* the details of all the entries bearing a summary, in order
RECURSIVE DetailsOf(_, _)
DetailsOf(entries, summary) ==
    IF entries = <<>> THEN <<>>
    ELSE (IF Head(entries).summary = summary THEN Head(entries).details ELSE <<>>)
         \o DetailsOf(Tail(entries), summary)

\* the trimmed, non-empty items at the positions of their first occurrence
RECURSIVE FirstFrom(_, _)
FirstFrom(items, k) ==
    IF k > Len(items) THEN <<>>
    ELSE (IF /\ strip(items[k]) # <<>>
             /\ \A j \in 1..(k - 1) : strip(items[j]) # strip(items[k])
          THEN <<strip(items[k])>> ELSE <<>>)
         \o FirstFrom(items, k + 1)

FirstOccurrences(items) == FirstFrom(items, 1)

EntriesAt(sections, label) ==
    IF IndexOf(sections, label) = 0 THEN <<>>
    ELSE sections[IndexOf(sections, label)].entries

\* a document the parser returns: the parser returns it on its own rendering
ParserReturns(D) ==
    _parse_report_markdown(_render_report_markdown(<<>>, D)).sections = D

\* the details that end in entry j of the merged section: those of the
\* existing entry at that place, then those of the incoming entries merged in
SourceDetails(label, j) ==
    LET ex == EntriesAt(existing, label)
        nw == EntriesAt(incoming, label)
        me == EntriesAt(merged, label)
    IN IF IndexOf(existing, label) = 0 THEN nw[j].details
       ELSE IF j > Len(ex) THEN DetailsOf(nw, me[j].summary)
       ELSE IF j = LastBearing(ex, ex[j].summary)
            THEN ex[j].details \o DetailsOf(nw, ex[j].summary)
            ELSE ex[j].details

\* C1: the merge is non-destructive: every existing section is in the result,
\* its entries are the first entries of the merged section, in their order and
\* with their summaries, ahead of the entries added from incoming, and every
\* non-empty trimmed detail of an existing entry is a detail of that entry.
C1_MergeNonDestructive ==
    pc \in {"merged", "self"} =>
        \A i \in 1..Len(existing) :
            LET ex == existing[i].entries
                me == EntriesAt(merged, existing[i].label)
            IN /\ IndexOf(merged, existing[i].label) # 0
               /\ Len(me) >= Len(ex)
               /\ \A j \in 1..Len(ex) :
                    /\ me[j].summary = ex[j].summary
                    /\ \A k \in 1..Len(ex[j].details) :
                          strip(ex[j].details[k]) # <<>>
                              => strip(ex[j].details[k]) \in Range(me[j].details)
               /\ \A j \in (Len(ex) + 1)..Len(me) :
                    /\ me[j].summary \notin Summaries(ex)
                    /\ me[j].summary \in Summaries(EntriesAt(incoming, existing[i].label))

C1_Witness ==
    /\ pc = "merged"
    /\ \E i \in 1..Len(existing) :
        LET ex == existing[i].entries
            me == EntriesAt(merged, existing[i].label)
        IN /\ IndexOf(incoming, existing[i].label) # 0
           /\ Len(ex) = 2
           /\ Len(me) > Len(ex)
           /\ ex[1].details # <<>>
           /\ me[1].details # ex[1].details

\* C3: merge additivity: in a section of both documents, the entry an incoming
\* summary matches gets the existing details followed by the incoming details
\* of that summary, first occurrences kept, and no entry of that summary is added.
C3_MergeAdditive ==
    pc = "merged" =>
        \A i \in 1..Len(existing) :
            LET ex == existing[i].entries
                nw == EntriesAt(incoming, existing[i].label)
                me == EntriesAt(merged, existing[i].label)
            IN \A s \in Summaries(ex) \cap Summaries(nw) :
                /\ Len(me) >= Len(ex)
                /\ me[LastBearing(ex, s)].summary = s
                /\ me[LastBearing(ex, s)].details =
                      FirstOccurrences(ex[LastBearing(ex, s)].details \o DetailsOf(nw, s))
                /\ CountSummary(me, s) = CountSummary(ex, s)

\* existing {A: x [d]} merged with incoming {A: x [e, " d"]} gives {A: x [d, e]}
C3_Witness ==
    /\ pc = "merged"
    /\ existing = <<Section(A, <<ReportEntry(x, <<d>>)>>)>>
    /\ incoming = <<Section(A, <<ReportEntry(x, <<e, <<SP, "d">> >>)>>)>>
    /\ merged = <<Section(A, <<ReportEntry(x, <<d, e>>)>>)>>

\* C4: merge idempotence: a document the parser returns, merged with an
\* identical copy of itself, is that document with each entry's details
\* de-duplicated.
C4_MergeIdempotent ==
    (pc = "self" /\ ParserReturns(existing)) =>
        merged = [i \in 1..Len(existing) |->
                    Section(existing[i].label,
                        [j \in 1..Len(existing[i].entries) |->
                            ReportEntry(existing[i].entries[j].summary,
                                FirstOccurrences(existing[i].entries[j].details))])]

\* C5: in the merge of two documents the parser returns, the summaries of
\* the entries of a section are distinct.
C5_SummariesUnique ==
    (pc = "merged" /\ ParserReturns(existing) /\ ParserReturns(incoming)) =>
        \A k \in 1..Len(merged) :
            \A i, j \in 1..Len(merged[k].entries) :
                i # j => merged[k].entries[i].summary # merged[k].entries[j].summary

\* C6: in every entry of the merge the details hold no empty string and no
\* two strings equal after trimming, in the order of their first occurrences
\* in the existing details followed by the incoming ones.
C6_DetailsClean ==
    pc \in {"merged", "self"} =>
        \A k \in 1..Len(merged) :
            \A j \in 1..Len(merged[k].entries) :
                LET ds == merged[k].entries[j].details
                IN /\ \A a \in 1..Len(ds) : ds[a] # <<>> /\ strip(ds[a]) = ds[a]
                   /\ \A a, b \in 1..Len(ds) : a # b => ds[a] # ds[b]
                   /\ ds = FirstOccurrences(SourceDetails(merged[k].label, j))

\* an existing entry with a stale duplicate and a blank detail, which no
\* incoming entry matches
C6_Witness ==
    /\ pc = "merged"
    /\ \E i \in 1..Len(existing) :
        /\ IndexOf(incoming, existing[i].label) # 0
        /\ \E j \in 1..Len(existing[i].entries) :
            /\ existing[i].entries[j] = ReportEntry(y, <<d, <<>>, d>>)
            /\ y \notin Summaries(EntriesAt(incoming, existing[i].label))
            /\ EntriesAt(merged, existing[i].label)[j].details = <<d>>

\* C7: section order: the sections of the existing document come first, in
\* their order, and the sections only incoming has follow, in incoming's
\* order; so it is after every one of the successive merges.
C7_SectionOrder ==
    pc = "chained" =>
        Labels(merged) =
            Labels(existing)
            \o SelectSeq(Labels(incoming),
                         LAMBDA l : l \notin Range(Labels(existing)))

\* a second merge that brings a section already there and a new one
C7_Witness ==
    /\ pc = "chained"
    /\ nmerges = 2
    /\ Len(existing) = 2
    /\ Len(incoming) = 2
    /\ Len(merged) = 3
    /\ incoming[1].label = merged[3].label
    /\ incoming[2].label = existing[1].label

----------------------------------------------------------------------------
(* What the claims about the store and the round trip speak of             *)

NonBlank(lines) == SelectSeq(lines, LAMBDA l : strip(l) # <<>>)

\* the entry bullets of a text: the label of a section and a summary in it
Bullets(text) ==
    LET secs == _parse_report_markdown(text).sections
    IN UNION {{<<secs[i].label, secs[i].entries[j].summary>> :
                  j \in 1..Len(secs[i].entries)} : i \in 1..Len(secs)}

\* C2: while the report is not deleted, the stored file holds every entry
\* bullet of every content saved so far: the first save creates the file with
\* the content, and a later save writes, under the line of the label, the
\* bullet line of every summary saved before or with it.
C2_SavesAccumulate ==
    /\ (pc = "created" => before = NoFile /\ file \in {content, content \o <<NL>>})
    /\ (file # NoFile =>
          \A text \in saved : Bullets(text) \subseteq Bullets(file))
    /\ (pc = "merged" =>
          \A text \in saved : \A b \in Bullets(text) :
              /\ b[1] \in Range(splitlines(file))
              /\ EntryMark \o b[2] \in Range(splitlines(file)))

\* two saves whose bullets differ, both in the file
C2_Witness ==
    /\ pc = "merged"
    /\ \E t1, t2 \in saved :
        /\ Bullets(t1) \ Bullets(t2) # {}
        /\ Bullets(t2) \ Bullets(t1) # {}
        /\ Bullets(before) = Bullets(t1)
        /\ Bullets(t1) \cup Bullets(t2) \subseteq Bullets(file)

\* C8: the merged text carries the preamble of the existing text when that
\* one is not empty, and else the preamble of the new text, and never lines
\* of both: it begins with the lines of the chosen preamble, and the parser
\* reads that preamble back from it.
C8_PreambleChoice ==
    pc = "merged" =>
        LET ep == _parse_report_markdown(before).preamble
            np == _parse_report_markdown(content).preamble
            chosen == IF ep # <<>> THEN ep ELSE np
            kept == PopBlank(chosen)
            lines == splitlines(file)
        IN /\ NonBlank(_parse_report_markdown(file).preamble) = NonBlank(chosen)
           /\ Len(lines) >= Len(kept)
           /\ SubSeq(lines, 1, Len(kept)) = kept

\* both texts have a preamble, and the two differ
C8_Witness ==
    /\ pc = "merged"
    /\ NonBlank(_parse_report_markdown(before).preamble) # <<>>
    /\ NonBlank(_parse_report_markdown(content).preamble) # <<>>
    /\ NonBlank(_parse_report_markdown(before).preamble)
          # NonBlank(_parse_report_markdown(content).preamble)
    /\ _parse_report_markdown(file).sections # <<>>

\* C9: parsing the text rendered from the sections X returns X.
C9_RoundTrip ==
    pc = "parsed" => parsed.sections = X

\* C10: a stored document made of contents of the generator ends with
\* exactly one newline.
C10_OneTrailingNewline ==
    (file # NoFile /\ saved \subseteq GeneratedContents) =>
        /\ endswith(file, <<NL>>)
        /\ ~endswith(file, <<NL, NL>>)

----------------------------------------------------------------------------
(* The report generator of src/report_generator.py: characters             *)

UpperChars == <<"A", "B", "C", "D", "E", "F", "G", "H", "I", "J", "K", "L", "M", "N", "O", "P", "Q", "R", "S", "T", "U", "V", "W", "X", "Y", "Z">>
LowerChars == <<"a", "b", "c", "d", "e", "f", "g", "h", "i", "j", "k", "l", "m", "n", "o", "p", "q", "r", "s", "t", "u", "v", "w", "x", "y", "z">>
DigitChars == <<"0", "1", "2", "3", "4", "5", "6", "7", "8", "9">>
\* the CJK characters of the model, in code point order
CjkChars == <<"Ta", "Qi", "Zhou", "Lu", "Bao", "Deng">>

\* the characters of the model in code point order
CodeOrder ==
    <<"\t", NL, SP, "#", "'", "(", ")", ",", "-", ".">> \o DigitChars \o <<":">>
    \o UpperChars \o <<"[", "]", "_">> \o LowerChars \o CjkChars

\* ord(c)
Ord == [c \in Range(CodeOrder) |-> CHOOSE i \in 1..Len(CodeOrder) : CodeOrder[i] = c]

\* [a-zA-Z]
IsAlpha(c) == c \in Range(UpperChars) \cup Range(LowerChars)

\* [一-鿿]
IsCjk(c) == c \in Range(CjkChars)

\* \w
IsWord(c) == IsAlpha(c) \/ IsCjk(c) \/ c \in Range(DigitChars) \/ c = "_"

\* str.lower() on one character
LowerChar(c) ==
    IF c \in Range(UpperChars)
    THEN LowerChars[CHOOSE i \in 1..Len(UpperChars) : UpperChars[i] = c]
    ELSE c

lower(s) == [i \in 1..Len(s) |-> LowerChar(s[i])]

\* a < b for two strings: the order sorted() puts strings in
RECURSIVE LessStr(_, _)
LessStr(a, b) ==
    IF b = <<>> THEN FALSE
    ELSE IF a = <<>> THEN TRUE
    ELSE IF Head(a) = Head(b) THEN LessStr(Tail(a), Tail(b))
    ELSE Ord[Head(a)] < Ord[Head(b)]

\* the number of characters from position p on that are whitespace
RECURSIVE SpaceRun(_, _)
SpaceRun(s, p) ==
    IF p <= Len(s) /\ IsSpace(s[p]) THEN 1 + SpaceRun(s, p + 1) ELSE 0

\* the number of characters from position p on that are word characters
RECURSIVE WordRun(_, _)
WordRun(s, p) ==
    IF p <= Len(s) /\ IsWord(s[p]) THEN 1 + WordRun(s, p + 1) ELSE 0

\* the position after \s*:\s* matched at position p, 0 when it does not match
AfterColon(s, p) ==
    LET c == p + SpaceRun(s, p)
    IN IF c <= Len(s) /\ s[c] = ":"
       THEN c + 1 + SpaceRun(s, c + 1)
       ELSE 0

\* the position after (\([^)]+\)) matched at position p, 0 when it does not match
AfterScope(s, p) ==
    IF /\ p <= Len(s)
       /\ s[p] = "("
       /\ \E q \in (p + 2)..Len(s) : s[q] = ")" /\ \A r \in (p + 1)..(q - 1) : s[r] # ")"
    THEN 1 + (CHOOSE q \in (p + 2)..Len(s) :
                s[q] = ")" /\ \A r \in (p + 1)..(q - 1) : s[r] # ")")
    ELSE 0

\* the number of characters ^(\w+)(\([^)]+\))?\s*:\s* matches, 0 for no match
PrefixLen(message) ==
    LET w == WordRun(message, 1)
        sc == AfterScope(message, w + 1)
    IN IF w = 0 THEN 0
       ELSE IF sc # 0 /\ AfterColon(message, sc) # 0 THEN AfterColon(message, sc) - 1
       ELSE IF AfterColon(message, w + 1) # 0 THEN AfterColon(message, w + 1) - 1
       ELSE 0

clean_commit_message(message) == strip(DropFirst(message, PrefixLen(message)))

\* re.findall of the runs of a class of characters, of a least length
RECURSIVE RunsFrom(_, _, _, _)
RunsFrom(s, cls, least, cur) ==
    IF s = <<>> THEN (IF Len(cur) >= least THEN <<cur>> ELSE <<>>)
    ELSE IF Head(s) \in cls THEN RunsFrom(Tail(s), cls, least, Append(cur, Head(s)))
    ELSE (IF Len(cur) >= least THEN <<cur>> ELSE <<>>)
         \o RunsFrom(Tail(s), cls, least, <<>>)

StopWords ==
    { <<"t", "h", "e">>,
      <<"a", "n", "d">>,
      <<"f", "o", "r">>,
      <<"w", "i", "t", "h">>,
      <<"t", "h", "i", "s">>,
      <<"t", "h", "a", "t">>,
      <<"f", "r", "o", "m">>,
      <<"i", "n", "t", "o">> }

\* letters an English word has at least
MinWord == 3
\* keywords kept at most
MaxKeywords == 3

extract_keywords(message) ==
    LET cleaned == DropFirst(message, PrefixLen(message))
        chinese_words == RunsFrom(cleaned, Range(CjkChars), 1, <<>>)
        english_words == RunsFrom(cleaned, Range(UpperChars) \cup Range(LowerChars),
                                  MinWord, <<>>)
        all == chinese_words \o [i \in 1..Len(english_words) |-> lower(english_words[i])]
        keywords == SelectSeq(all, LAMBDA k : lower(k) \notin StopWords)
    IN SubSeq(keywords, 1, IF Len(keywords) < MaxKeywords THEN Len(keywords) ELSE MaxKeywords)

\* str(list) of a list of keywords: ['add', 'login']
RECURSIVE ReprItems(_)
ReprItems(items) ==
    IF items = <<>> THEN <<>>
    ELSE <<"'">> \o Head(items) \o <<"'">>
         \o (IF Len(items) > 1 THEN <<",", SP>> ELSE <<>>)
         \o ReprItems(Tail(items))

ListRepr(items) == <<"[">> \o ReprItems(items) \o <<"]">>

\* str_key with the keywords in their order of extraction, not sorted
str_key_unsorted(message) ==
    IF extract_keywords(message) # <<>>
    THEN ListRepr(extract_keywords(message))
    ELSE message

\* str_key: the key a commit is grouped under
str_key(message) ==
    IF extract_keywords(message) # <<>>
    THEN ListRepr(SortSeq(extract_keywords(message), LessStr))
    ELSE message

----------------------------------------------------------------------------
(* Commits, their groups and the sections of the generated report          *)

\* a commit as get_commits builds it
Commit(message, type, is_trivial, project) ==
    [message |-> message, type |-> type, is_trivial |-> is_trivial, project |-> project]

\* a commit merge_related_commits returns: a copy with its details
WithDetails(c, details) ==
    [message |-> c.message, type |-> c.type, is_trivial |-> c.is_trivial,
     project |-> c.project, details |-> details]

filter_trivial_commits_keepall(commits) == commits

filter_trivial_commits(commits) == SelectSeq(commits, LAMBDA c : ~c.is_trivial)

\* the position of a key in the groups, 0 when it is not there
GroupIndex(groups, key) ==
    IF \E i \in 1..Len(groups) : groups[i].key = key
    THEN CHOOSE i \in 1..Len(groups) : groups[i].key = key
    ELSE 0

\* groups with the commits keyed by their keywords as extracted, not sorted
RECURSIVE GroupFrom_unsorted(_, _)
GroupFrom_unsorted(commits, groups) ==
    IF commits = <<>> THEN groups
    ELSE LET c == Head(commits)
             k == str_key_unsorted(c.message)
             i == GroupIndex(groups, k)
         IN IF i = 0
            THEN GroupFrom_unsorted(Tail(commits), Append(groups, [key |-> k, commits |-> <<c>>]))
            ELSE GroupFrom_unsorted(Tail(commits),
                     [groups EXCEPT ![i].commits = Append(@, c)])

\* the groups dict: each commit appended to the group of its key, keys in
\* order of first appearance
RECURSIVE GroupFrom(_, _)
GroupFrom(commits, groups) ==
    IF commits = <<>> THEN groups
    ELSE LET c == Head(commits)
             k == str_key(c.message)
             i == GroupIndex(groups, k)
         IN IF i = 0
            THEN GroupFrom(Tail(commits), Append(groups, [key |-> k, commits |-> <<c>>]))
            ELSE GroupFrom(Tail(commits),
                     [groups EXCEPT ![i].commits = Append(@, c)])

\* the representative taken as the first commit of the group whatever its type
MainCommit_first(group_commits) == group_commits[1]

\* the representative of a group: its first feat commit, else its first commit
MainCommit(group_commits) ==
    IF \E i \in 1..Len(group_commits) : group_commits[i].type = "feat"
    THEN group_commits[CHOOSE i \in 1..Len(group_commits) :
                          /\ group_commits[i].type = "feat"
                          /\ \A j \in 1..(i - 1) : group_commits[j].type # "feat"]
    ELSE group_commits[1]

\* the details kept even when only one is left
GroupDetails_keepone(group_commits) ==
    DedupeFrom([i \in 1..Len(group_commits) |->
                   clean_commit_message(group_commits[i].message)], {}, <<>>)

\* the details of a group: the cleaned messages, deduplicated, or none
GroupDetails(group_commits) ==
    LET details == [i \in 1..Len(group_commits) |->
                       clean_commit_message(group_commits[i].message)]
        uniq_details == DedupeFrom(details, {}, <<>>)
    IN IF Len(uniq_details) > 1 THEN uniq_details ELSE <<>>

MergeGroups(groups) ==
    [i \in 1..Len(groups) |->
        WithDetails(MainCommit(groups[i].commits), GroupDetails(groups[i].commits))]

\* merge_related_commits without the early return for one commit, which then
\* goes through the groups only when there are two or more
merge_related_commits_nosingle(commits) ==
    IF Len(commits) <= 1 THEN <<>>
    ELSE MergeGroups(GroupFrom(commits, <<>>))

merge_related_commits(commits) ==
    IF commits = <<>> THEN <<>>
    ELSE IF Len(commits) <= 1 THEN <<WithDetails(commits[1], <<>>)>>
    ELSE MergeGroups(GroupFrom(commits, <<>>))

\* characters of a summary at most
MaxLength == 20
Ellipsis == <<".", ".", ".">>

\* summarize_commit cutting at max_length, the ellipsis not counted
summarize_commit_long(message) ==
    LET cleaned == clean_commit_message(message)
    IN strip(IF Len(cleaned) > MaxLength
             THEN SubSeq(cleaned, 1, MaxLength) \o Ellipsis
             ELSE cleaned)

summarize_commit(message) ==
    LET cleaned == clean_commit_message(message)
    IN strip(IF Len(cleaned) > MaxLength
             THEN SubSeq(cleaned, 1, MaxLength - Len(Ellipsis)) \o Ellipsis
             ELSE cleaned)

\* the lines of one merged commit: its summary, then its details
CommitLines(c) ==
    <<EntryMark \o summarize_commit(c.message)>>
    \o [i \in 1..Len(c.details) |-> DetailMark \o c.details[i]]

RECURSIVE AllCommitLines(_)
AllCommitLines(commits) ==
    IF commits = <<>> THEN <<>>
    ELSE CommitLines(Head(commits)) \o AllCommitLines(Tail(commits))

format_project_section(project_name, commits) ==
    join(<<project_name>> \o AllCommitLines(commits))

\* format_other_section with the supplements nested under the label as details
format_other_section_nested(supplements) ==
    join(<<OtherLabel>> \o [i \in 1..Len(supplements) |-> DetailMark \o supplements[i]])

format_other_section(supplements) ==
    join(<<OtherLabel>> \o [i \in 1..Len(supplements) |-> EntryMark \o supplements[i]])

\* the position of a project in the grouping, 0 when it is not there
ProjectIndex(grouped, project) ==
    IF \E i \in 1..Len(grouped) : grouped[i].project = project
    THEN CHOOSE i \in 1..Len(grouped) : grouped[i].project = project
    ELSE 0

RECURSIVE GroupByProject(_, _)
GroupByProject(commits, grouped) ==
    IF commits = <<>> THEN grouped
    ELSE LET c == Head(commits)
             i == ProjectIndex(grouped, c.project)
         IN IF i = 0
            THEN GroupByProject(Tail(commits),
                     Append(grouped, [project |-> c.project, commits |-> <<c>>]))
            ELSE GroupByProject(Tail(commits),
                     [grouped EXCEPT ![i].commits = Append(@, c)])

\* the dict of project to commits, projects in order of first appearance
group_commits_by_project(commits) == GroupByProject(commits, <<>>)

\* the supplements argument: None, or a list of strings
NoSupplements == [none |-> TRUE, items |-> <<>>]
Supplements(items) == [none |-> FALSE, items |-> items]

\* join of sections with a blank line between two
RECURSIVE JoinSections(_)
JoinSections(sections) ==
    IF sections = <<>> THEN <<>>
    ELSE IF Len(sections) = 1 THEN sections[1]
    ELSE sections[1] \o <<NL, NL>> \o JoinSections(Tail(sections))

\* the project sections in the order the projects first appear, not sorted
ProjectSections_unsorted(grouped) ==
    [i \in 1..Len(grouped) |->
        format_project_section(grouped[i].project,
                               merge_related_commits(grouped[i].commits))]

\* the project sections, in the order of sorted(grouped.items())
ProjectSections(grouped) ==
    LET items == SortSeq(grouped, LAMBDA g, h : LessStr(g.project, h.project))
    IN [i \in 1..Len(items) |->
           format_project_section(items[i].project,
                                  merge_related_commits(items[i].commits))]

\* generate_report with the commits grouped by project before the trivial
\* ones are filtered out of each group
generate_report_groupfirst(commits, supplements) ==
    IF commits = <<>> /\ supplements.items = <<>> THEN <<>>
    ELSE LET grouped == group_commits_by_project(commits)
             kept == [i \in 1..Len(grouped) |->
                         [project |-> grouped[i].project,
                          commits |-> filter_trivial_commits(grouped[i].commits)]]
         IN JoinSections(ProjectSections(kept)
                \o (IF supplements.items # <<>>
                    THEN <<format_other_section(supplements.items)>> ELSE <<>>))

generate_report(commits, supplements) ==
    IF commits = <<>> /\ supplements.items = <<>> THEN <<>>
    ELSE LET filtered_commits == filter_trivial_commits(commits)
             grouped == group_commits_by_project(filtered_commits)
         IN JoinSections(ProjectSections(grouped)
                \o (IF supplements.items # <<>>
                    THEN <<format_other_section(supplements.items)>> ELSE <<>>))

----------------------------------------------------------------------------
(* Two saves of the same period running at once: SpecRace                  *)

Writers == {1, 2}

Other(w) == IF w = 1 THEN 2 ELSE 1

\* the stored file when the two saves start
RaceFiles == {NoFile, join(<<Title, Blank, A, Ey>>) \o <<NL>>}

RaceInit ==
    /\ pc = "init"
    /\ file \in RaceFiles
    /\ content = <<>>
    /\ saved = {}
    /\ before = NoFile
    /\ nsaves = 0
    /\ kind \in {"week", "period"}
    /\ wpc = [w \in Writers |-> "start"]
    /\ wcontent \in [Writers -> Contents]
    /\ wexisting = [w \in Writers |-> NoFile]
    /\ overlap = FALSE
    /\ IdleMerge
    /\ IdleTrip
    /\ IdleGen
    /\ IdleSum
    /\ IdleMore

\* a step of writer w overlaps the other save when that one has made its
\* exists-check and not yet its write
Step(w, to) ==
    /\ wpc' = [wpc EXCEPT ![w] = to]
    /\ overlap' = (overlap \/ wpc[Other(w)] \notin {"start", "done"})
    /\ pc' = "race"

\* if path.exists():
CheckExists(w) ==
    /\ wpc[w] = "start"
    /\ Step(w, IF file # NoFile THEN "exists" ELSE "absent")
    /\ UNCHANGED <<wcontent, wexisting, mergeVars, storeVars, tripVars, genVars, sumVars, moreVars>>

\* existing = path.read_text()
ReadExisting(w) ==
    /\ wpc[w] = "exists"
    /\ wexisting' = [wexisting EXCEPT ![w] = file]
    /\ Step(w, "read")
    /\ UNCHANGED <<wcontent, mergeVars, storeVars, tripVars, genVars, sumVars, moreVars>>

\* path.write_text(...): the merge of what the writer read with its content,
\* or its content when its exists-check found no file
WriteText(w) ==
    /\ wpc[w] \in {"read", "absent"}
    /\ file' = WriteReport(wexisting[w], wcontent[w])
    /\ Step(w, "done")
    /\ UNCHANGED <<wcontent, wexisting, content, saved, before, nsaves, kind,
                   mergeVars, tripVars, genVars, sumVars, moreVars>>

RaceNext == \E w \in Writers : CheckExists(w) \/ ReadExisting(w) \/ WriteText(w)

SpecRace == RaceInit /\ [][RaceNext]_vars

\* C11: save_report has no conflict detection. When the two saves of the
\* period run one after the other, the file holds the entry bullets of both
\* contents; when their exists-check, read and write steps interleave, a final
\* state is reached in which the file lacks a bullet of one of the writers.
C11_SerialSavesKeepBoth ==
    (wpc = [w \in Writers |-> "done"] /\ ~overlap)
        => \A w \in Writers : Bullets(wcontent[w]) \subseteq Bullets(file)

\* both saves are done, they overlapped, and a bullet of one writer is lost
C11_Witness ==
    /\ wpc = [w \in Writers |-> "done"]
    /\ overlap
    /\ \E w \in Writers : ~(Bullets(wcontent[w]) \subseteq Bullets(file))

\* both saves are done, one after the other, each with a bullet of its own
C11_SerialWitness ==
    /\ wpc = [w \in Writers |-> "done"]
    /\ ~overlap
    /\ \A w \in Writers : Bullets(wcontent[w]) \ Bullets(wcontent[Other(w)]) # {}

----------------------------------------------------------------------------
(* The generator on a list of commits: SpecGen                             *)

\* commits in one input list, at most
MaxCommits == 3

MsgAddLogin ==
    <<"f", "e", "a", "t", ":", SP, "a", "d", "d", SP, "l", "o", "g", "i", "n">>
MsgRefineLogin ==
    <<"f", "e", "a", "t", ":", SP, "r", "e", "f", "i", "n", "e", SP, "l", "o", "g", "i", "n">>
MsgBumpDeps ==
    <<"c", "h", "o", "r", "e", ":", SP, "b", "u", "m", "p", SP, "d", "e", "p", "s">>
MsgLoginAdd ==
    <<"f", "i", "x", ":", SP, "l", "o", "g", "i", "n", SP, "a", "d", "d">>
MsgFixAddLogin ==
    <<"f", "i", "x", ":", SP, "a", "d", "d", SP, "l", "o", "g", "i", "n">>
MsgFixTypo ==
    <<"f", "i", "x", SP, "t", "y", "p", "o">>
MsgV2 ==
    <<"v", "2">>
MsgOAuth ==
    <<"f", "e", "a", "t", "(", "a", "u", "t", "h", ")", ":", SP, "a", "d", "d", SP, "O", "A", "u", "t", "h", SP, "l", "o", "g", "i", "n", SP, "c", "a", "l", "l", "b", "a", "c", "k">>
MsgCjk ==
    <<"f", "i", "x", ":", SP, "Deng", "Lu", SP, "b", "u", "g">>

ProjectLower == <<"a">>

\* commits as get_commits builds them from parse_commit_message: the type is
\* the conventional prefix, "other" without one, and is_trivial the match of
\* a trivial pattern
CommitPool ==
    { Commit(MsgAddLogin, "feat", FALSE, B),
      Commit(MsgRefineLogin, "feat", FALSE, B),
      Commit(MsgBumpDeps, "chore", FALSE, B),
      Commit(MsgLoginAdd, "fix", FALSE, B),
      Commit(MsgFixAddLogin, "fix", FALSE, A),
      Commit(MsgFixTypo, "other", TRUE, A),
      Commit(MsgV2, "other", FALSE, ProjectLower),
      Commit(MsgOAuth, "feat", FALSE, A),
      Commit(MsgCjk, "fix", FALSE, ProjectLower) }

CommitSeqs == UNION {[1..n -> CommitPool] : n \in 0..MaxCommits}

SupplementPool == {NoSupplements, Supplements(<<>>), Supplements(<<<<"t">>, <<"s">>>>)}

GenInit ==
    /\ pc = "init"
    /\ commitList \in CommitSeqs
    /\ supplementList \in SupplementPool
    /\ filteredList = <<>>
    /\ entryList = <<>>
    /\ reportText = <<>>
    /\ IdleMerge
    /\ IdleStore
    /\ IdleTrip
    /\ IdleRace
    /\ IdleSum
    /\ IdleMore

\* filter_trivial_commits(commits)
FilterTrivial ==
    /\ pc = "init"
    /\ filteredList' = filter_trivial_commits(commitList)
    /\ pc' = "filtered"
    /\ UNCHANGED <<commitList, supplementList, entryList, reportText,
                   mergeVars, storeVars, tripVars, raceVars, sumVars, moreVars>>

\* merge_related_commits(commits)
MergeRelated ==
    /\ pc = "init"
    /\ entryList' = merge_related_commits(commitList)
    /\ pc' = "grouped"
    /\ UNCHANGED <<commitList, supplementList, filteredList, reportText,
                   mergeVars, storeVars, tripVars, raceVars, sumVars, moreVars>>

\* generate_report(commits, supplements)
GenerateReport ==
    /\ pc = "init"
    /\ reportText' = generate_report(commitList, supplementList)
    /\ pc' = "generated"
    /\ UNCHANGED <<commitList, supplementList, filteredList, entryList,
                   mergeVars, storeVars, tripVars, raceVars, sumVars, moreVars>>

GenNext == FilterTrivial \/ MergeRelated \/ GenerateReport

SpecGen == GenInit /\ [][GenNext]_vars

----------------------------------------------------------------------------
(* What the claims about the generator speak of                            *)

\* the commits of a list from position k on whose is_trivial flag is not true
RECURSIVE NonTrivialFrom(_, _)
NonTrivialFrom(cs, k) ==
    IF k > Len(cs) THEN <<>>
    ELSE (IF cs[k].is_trivial = TRUE THEN <<>> ELSE <<cs[k]>>)
         \o NonTrivialFrom(cs, k + 1)

NonTrivial(cs) == NonTrivialFrom(cs, 1)

\* the messages of the commits of the pool
PoolMessages == {c.message : c \in CommitPool}

\* the key, the cleaned description and the summary of each message
KeyOf == [m \in PoolMessages |-> str_key(m)]
CleanOf == [m \in PoolMessages |-> clean_commit_message(m)]
SummaryOf == [m \in PoolMessages |-> summarize_commit(m)]

\* the keys of the commits of a list, each at its first appearance
RECURSIVE KeysFrom(_, _)
KeysFrom(cs, k) ==
    IF k > Len(cs) THEN <<>>
    ELSE (IF \A j \in 1..(k - 1) : KeyOf[cs[j].message] # KeyOf[cs[k].message]
          THEN <<KeyOf[cs[k].message]>> ELSE <<>>)
         \o KeysFrom(cs, k + 1)

KeysInOrder(cs) == KeysFrom(cs, 1)

\* the commits of a list whose key is k, in input order
Members(cs, k) == SelectSeq(cs, LAMBDA c : KeyOf[c.message] = k)

\* the cleaned descriptions of the commits of a group
Descriptions(group) == [i \in 1..Len(group) |-> CleanOf[group[i].message]]

\* the heading lines of a report: its lines that are not indented
Headings(text) ==
    SelectSeq(splitlines(text), LAMBDA l : l # <<>> /\ ~IsSpace(l[1]))

\* the project labels of a report: its headings but that of the supplements
ProjectHeadings(text, sup) ==
    LET h == Headings(text)
    IN IF sup.items # <<>> THEN SubSeq(h, 1, Len(h) - 1) ELSE h

\* a list with its commits at positions i and i + 1 exchanged
Swap(cs, i) ==
    [k \in 1..Len(cs) |-> IF k = i THEN cs[i + 1] ELSE IF k = i + 1 THEN cs[i] ELSE cs[k]]

\* C12: generate_report returns the empty string whenever there is nothing to
\* report: the commit list is empty or holds only trivial commits, and
\* supplements is empty or None.
C12_NothingToReport ==
    (/\ pc = "generated"
     /\ \A i \in 1..Len(commitList) : commitList[i].is_trivial
     /\ supplementList.items = <<>>)
        => reportText = <<>>

\* only trivial commits and no supplements were handed to generate_report
C12_Witness ==
    /\ pc = "generated"
    /\ Len(commitList) >= 2
    /\ \A i \in 1..Len(commitList) : commitList[i].is_trivial
    /\ supplementList = NoSupplements
    /\ reportText = <<>>

\* C13: trivial commits are excluded from the rendered report.
\* filter_trivial_commits returns exactly the commits whose is_trivial flag is
\* not true, in input order, and every bullet line and detail line of
\* generate_report's output comes from a commit whose flag is not true (or is
\* a supplement), none from a trivial commit.
C13_TrivialExcluded ==
    /\ pc = "filtered" => filteredList = NonTrivial(commitList)
    /\ pc = "generated" =>
        LET lines == splitlines(reportText)
            kept == NonTrivial(commitList)
        IN \A i \in 1..Len(lines) :
            /\ startswith(lines[i], DetailMark) =>
                  \E k \in 1..Len(kept) :
                     lines[i] = DetailMark \o CleanOf[kept[k].message]
            /\ startswith(lines[i], EntryMark) =>
                  \/ \E k \in 1..Len(kept) :
                        lines[i] = EntryMark \o SummaryOf[kept[k].message]
                  \/ \E k \in 1..Len(supplementList.items) :
                        lines[i] = EntryMark \o supplementList.items[k]

\* a report was generated from a trivial commit and a commit that is not
C13_Witness ==
    /\ pc = "generated"
    /\ \E i, j \in 1..Len(commitList) :
          /\ commitList[i].is_trivial
          /\ ~commitList[j].is_trivial
          /\ commitList[i].project = commitList[j].project
    /\ reportText # <<>>

\* C14: for the commits "feat: add login", "feat: refine login" and
\* "chore: bump deps" of one project, merge_related_commits produces exactly
\* two entries, one for the two login commits and one for the chore commit.
C14_LoginScenario ==
    (/\ pc = "grouped"
     /\ commitList = << Commit(MsgAddLogin, "feat", FALSE, B),
                        Commit(MsgRefineLogin, "feat", FALSE, B),
                        Commit(MsgBumpDeps, "chore", FALSE, B) >>)
        => /\ Len(entryList) = 2
           /\ entryList[1].message = MsgAddLogin
           /\ entryList[2].message = MsgBumpDeps

\* C15: merge_related_commits partitions its input. The groups are the lists
\* of the commits of each key, so that every commit is in exactly one group
\* and two commits are in one group exactly when their keys are identical; the
\* output has one entry per distinct key, in the order in which the keys
\* first appear in the input.
C15_Partition ==
    pc = "grouped" =>
        LET keys == KeysInOrder(commitList)
        IN /\ Len(entryList) = Len(keys)
           /\ \A i \in 1..Len(entryList) : KeyOf[entryList[i].message] = keys[i]
           /\ GroupFrom(commitList, <<>>) =
                 [i \in 1..Len(keys) |->
                     [key |-> keys[i], commits |-> Members(commitList, keys[i])]]

\* two commits of one key are apart in the input, a commit of another key
\* between them
C15_Witness ==
    /\ pc = "grouped"
    /\ Len(commitList) = 3
    /\ KeyOf[commitList[1].message] = KeyOf[commitList[3].message]
    /\ KeyOf[commitList[1].message] # KeyOf[commitList[2].message]
    /\ commitList[1] # commitList[3]
    /\ Len(entryList) = 2

\* C16: for each group of two or more commits, the entry is the first commit
\* of the group whose type is "feat", the first commit of the group when it
\* has none, and the entry's bullet line is the summary of that commit's message.
C16_Representative ==
    (pc = "grouped" /\ Len(commitList) >= 2) =>
        LET keys == KeysInOrder(commitList)
        IN \A i \in 1..Len(keys) :
            LET group == Members(commitList, keys[i])
                feats == SelectSeq(group, LAMBDA c : c.type = "feat")
                rep == IF feats # <<>> THEN feats[1] ELSE group[1]
            IN Len(group) >= 2 =>
                /\ i <= Len(entryList)
                /\ entryList[i].message = rep.message
                /\ entryList[i].type = rep.type
                /\ entryList[i].project = rep.project
                /\ entryList[i].is_trivial = rep.is_trivial
                /\ CommitLines(entryList[i])[1]
                      = EntryMark \o SummaryOf[rep.message]

\* a group whose first commit is not a feat and whose second is
C16_Witness ==
    /\ pc = "grouped"
    /\ Len(commitList) >= 2
    /\ KeyOf[commitList[1].message] = KeyOf[commitList[2].message]
    /\ commitList[1].type # "feat"
    /\ commitList[2].type = "feat"
    /\ entryList[1].message = commitList[2].message

\* C17: the details of every entry are either empty or at least two distinct,
\* non-empty, trimmed cleaned descriptions of the commits of the group, in
\* input order with duplicates removed; they are empty exactly when the group
\* has fewer than two unique cleaned descriptions.
C17_Details ==
    pc = "grouped" =>
        LET keys == KeysInOrder(commitList)
        IN \A i \in 1..Len(entryList) :
            LET descs == Descriptions(Members(commitList, keys[i]))
                uniq == {strip(descs[k]) : k \in 1..Len(descs)} \ {<<>>}
                dets == entryList[i].details
            IN /\ dets = IF Cardinality(uniq) >= 2
                         THEN FirstOccurrences(descs) ELSE <<>>
               /\ dets = <<>> <=> Cardinality(uniq) < 2
               /\ dets # <<>> =>
                     /\ Len(dets) >= 2
                     /\ \A k \in 1..Len(dets) : dets[k] # <<>> /\ dets[k] = strip(dets[k])
                     /\ \A k, l \in 1..Len(dets) : k # l => dets[k] # dets[l]

\* a group of three commits with two unique descriptions: the details are
\* the two, the duplicate removed
C17_Witness ==
    /\ pc = "grouped"
    /\ Len(commitList) = 3
    /\ Len(entryList) = 1
    /\ Cardinality(Range(Descriptions(commitList))) = 2
    /\ Len(entryList[1].details) = 2

\* C18: merge_related_commits on a list of exactly one commit returns exactly
\* one entry, for that commit, with empty details; on the empty list it
\* returns the empty list.
C18_Singleton ==
    pc = "grouped" =>
        /\ Len(commitList) = 1 => entryList = <<WithDetails(commitList[1], <<>>)>>
        /\ commitList = <<>> => entryList = <<>>

\* merge_related_commits was handed one commit
C18_Witness ==
    /\ pc = "grouped"
    /\ Len(commitList) = 1
    /\ Len(entryList) = 1

\* C20: generate_report emits the project sections in ascending lexicographic
\* order of project label, whatever the order of the commits in its input;
\* two inputs that are permutations of each other give the same section order
\* (every permutation is a chain of exchanges of two neighbours, and every
\* list of the chain is an input).
C20_SectionsSorted ==
    pc = "generated" =>
        LET ps == ProjectHeadings(reportText, supplementList)
            kept == NonTrivial(commitList)
        IN /\ \A i \in 1..(Len(ps) - 1) : LessStr(ps[i], ps[i + 1])
           /\ Range(ps) = {kept[k].project : k \in 1..Len(kept)}
           /\ \A i \in 1..(Len(commitList) - 1) :
                 ProjectHeadings(generate_report(Swap(commitList, i), supplementList),
                                 supplementList) = ps

\* the projects come in the input in an order that is not the sorted one
C20_Witness ==
    /\ pc = "generated"
    /\ Len(commitList) = 3
    /\ ~commitList[1].is_trivial /\ ~commitList[2].is_trivial /\ ~commitList[3].is_trivial
    /\ LessStr(commitList[3].project, commitList[1].project)
    /\ LessStr(commitList[1].project, commitList[2].project)
    /\ Len(ProjectHeadings(reportText, supplementList)) = 3

----------------------------------------------------------------------------
(* The summary of one commit message: SpecSummarize                        *)

\* a description of 29 characters, the 17th a space
LongDescription ==
    <<"a", "d", "d", SP, "O", "A", "u", "t", "h", SP, "l", "o", "g", "i", "n", "s", SP, "t", "o", SP, "c", "a", "l", "l", "b", "a", "c", "k", "s">>

\* conventional prefixes, none, and a prefix the pattern does not match
SumPrefixes ==
    { <<>>,
      <<"f", "e", "a", "t", ":", SP>>,
      <<"f", "i", "x", "(", "u", "i", ")", SP, ":", SP, SP>>,
      <<"a", SP, "b", ":", SP>> }

\* every prefix followed by every beginning of the description
SumMessages ==
    {pre \o SubSeq(LongDescription, 1, n) :
        pre \in SumPrefixes, n \in 0..Len(LongDescription)}

SumInit ==
    /\ pc = "init"
    /\ commitMessage \in SumMessages
    /\ summaryText = <<>>
    /\ IdleMerge
    /\ IdleStore
    /\ IdleTrip
    /\ IdleRace
    /\ IdleGen
    /\ IdleMore

\* summarize_commit(message)
Summarize ==
    /\ pc = "init"
    /\ summaryText' = summarize_commit(commitMessage)
    /\ pc' = "summarized"
    /\ UNCHANGED <<commitMessage, mergeVars, storeVars, tripVars, raceVars, genVars, moreVars>>

SpecSummarize == SumInit /\ [][Summarize]_vars

\* C19: summarize_commit with the default length returns at most 20
\* characters; when the cleaned description (the conventional prefix stripped)
\* is longer than 20 characters the result is its first 17 characters followed
\* by "...", and otherwise it is the cleaned description unchanged.
C19_SummaryLength ==
    pc = "summarized" =>
        LET cleaned == clean_commit_message(commitMessage)
        IN /\ Len(summaryText) <= 20
           /\ Len(cleaned) > 20 =>
                 /\ summaryText = SubSeq(cleaned, 1, 17) \o <<".", ".", ".">>
                 /\ Len(summaryText) = 20
           /\ Len(cleaned) <= 20 => summaryText = cleaned

\* a description of 21 characters behind a prefix, cut after its 17th
\* character, a space
C19_Witness ==
    /\ pc = "summarized"
    /\ Len(clean_commit_message(commitMessage)) = 21
    /\ Len(commitMessage) > 21
    /\ summaryText[17] = SP
    /\ Len(summaryText) = 20

----------------------------------------------------------------------------
(* What the claims about the supplements section speak of                  *)

\* the last n lines of a list of lines
LastLines(lines, n) == SubSeq(lines, Len(lines) - n + 1, Len(lines))

\* C21: when supplements is non-empty, generate_report's output ends with a
\* section labelled OtherLabel that comes after every project section and
\* holds one entry bullet per supplement string, in input order, and no detail
\* line; when supplements is empty or None the generator emits no such section.
C21_OtherSection ==
    pc = "generated" =>
        LET lines == splitlines(reportText)
            items == supplementList.items
            n == Len(items)
        IN IF n > 0
           THEN /\ Len(lines) >= n + 1
                /\ LastLines(lines, n + 1)[1] = OtherLabel
                /\ \A k \in 1..n : LastLines(lines, n + 1)[k + 1] = EntryMark \o items[k]
                /\ Len(lines) > n + 1 => lines[Len(lines) - n - 1] = <<>>
                /\ \A i \in 1..(Len(lines) - n - 1) : lines[i] # OtherLabel
                /\ Len(Headings(reportText))
                      = 1 + Cardinality({NonTrivial(commitList)[k].project :
                                            k \in 1..Len(NonTrivial(commitList))})
           ELSE \A i \in 1..Len(lines) : lines[i] # OtherLabel

\* two supplements after the sections of two projects
C21_Witness ==
    /\ pc = "generated"
    /\ Len(supplementList.items) = 2
    /\ Len(Headings(reportText)) = 3
    /\ LastLines(splitlines(reportText), 3)
          = <<OtherLabel, EntryMark \o <<"t">>, EntryMark \o <<"s">>>>

----------------------------------------------------------------------------
(* The commit classifier of src/git_analyzer.py                            *)

\* the pieces of a trivial pattern: a literal text, one of several texts,
\* whitespace (\s* or \s+), the end of the message ($)
Lit(text) == [kind |-> "lit", texts |-> {text}, least |-> 0]
Alt(texts) == [kind |-> "lit", texts |-> texts, least |-> 0]
Ws(least) == [kind |-> "ws", texts |-> {}, least |-> least]
End == [kind |-> "end", texts |-> {}, least |-> 0]

TRIVIAL_PATTERNS ==
    << <<Lit(<<"f", "i", "x">>), Ws(0), Lit(<<"t", "y", "p", "o">>)>>,
       <<Lit(<<"t", "y", "p", "o">>)>>,
       <<Lit(<<"u", "p", "d", "a", "t", "e">>), Ws(0),
         Alt({<<"r", "e", "a", "d", "m", "e">>,
              <<"c", "h", "a", "n", "g", "e", "l", "o", "g">>})>>,
       <<Lit(<<"m", "e", "r", "g", "e">>), Ws(1), Lit(<<"b", "r", "a", "n", "c", "h">>)>>,
       <<Lit(<<"m", "e", "r", "g", "e">>), Ws(1), Lit(<<"p", "u", "l", "l">>), Ws(1),
         Lit(<<"r", "e", "q", "u", "e", "s", "t">>)>>,
       <<Lit(<<"w", "i", "p">>), End>>,
       <<Lit(<<"w", "i", "p", ":">>)>>,
       <<Lit(<<"f", "o", "r", "m", "a", "t">>)>>,
       <<Lit(<<"l", "i", "n", "t">>)>>,
       <<Lit(<<"s", "t", "y", "l", "e", ":">>)>> >>

\* the text t stands in s at position p
HasAt(s, p, t) ==
    /\ p + Len(t) - 1 <= Len(s)
    /\ \A i \in 1..Len(t) : s[p + i - 1] = t[i]

\* re.match of the pieces of a pattern at position p
RECURSIVE MatchFrom(_, _, _)
MatchFrom(s, p, pieces) ==
    IF pieces = <<>> THEN TRUE
    ELSE LET piece == Head(pieces)
         IN CASE piece.kind = "lit" ->
                    \E t \in piece.texts :
                        HasAt(s, p, t) /\ MatchFrom(s, p + Len(t), Tail(pieces))
              [] piece.kind = "ws" ->
                    \E k \in piece.least..SpaceRun(s, p) :
                        MatchFrom(s, p + k, Tail(pieces))
              [] piece.kind = "end" ->
                    /\ \/ p = Len(s) + 1
                       \/ p = Len(s) /\ s[p] = NL
                    /\ MatchFrom(s, p, Tail(pieces))

\* is_trivial decided on the message as it is, not lower-cased
IsTrivial_cased(message) ==
    \E i \in 1..Len(TRIVIAL_PATTERNS) : MatchFrom(strip(message), 1, TRIVIAL_PATTERNS[i])

\* the loop over TRIVIAL_PATTERNS on message.lower().strip()
IsTrivial(message) ==
    LET message_lower == strip(lower(message))
    IN \E i \in 1..Len(TRIVIAL_PATTERNS) : MatchFrom(message_lower, 1, TRIVIAL_PATTERNS[i])

\* scope: None, or the text between the parentheses
NoScope == [none |-> TRUE, text |-> <<>>]
Scope(text) == [none |-> FALSE, text |-> text]

\* .+$ on the rest of the message: one character or more, no line break
\* among them, up to the end or to a line break that ends the message
DescriptionOf(rest) ==
    IF rest # <<>> /\ rest[Len(rest)] = NL /\ Len(rest) > 1
       /\ \A i \in 1..(Len(rest) - 1) : rest[i] # NL
    THEN SubSeq(rest, 1, Len(rest) - 1)
    ELSE IF rest # <<>> /\ \A i \in 1..Len(rest) : rest[i] # NL
    THEN rest
    ELSE <<>>

\* the match of ^(\w+)(?:\(([^)]+)\))?\s*:\s*(.+)$ on the message
ConventionalMatch(message) ==
    LET w == WordRun(message, 1)
        sc == AfterScope(message, w + 1)
        start == IF sc # 0 THEN sc ELSE w + 1
        colon == start + SpaceRun(message, start)
        after == colon + 1
        \* \s* gives back whitespace until .+$ matches
        gaps == {k \in 0..SpaceRun(message, after) :
                    DescriptionOf(DropFirst(message, after + k - 1)) # <<>>}
        gap == CHOOSE k \in gaps : \A l \in gaps : l <= k
    IN IF w > 0 /\ colon <= Len(message) /\ message[colon] = ":" /\ gaps # {}
       THEN [ok |-> TRUE,
             type |-> SubSeq(message, 1, w),
             scope |-> IF sc # 0 THEN Scope(SubSeq(message, w + 2, sc - 2)) ELSE NoScope,
             description |-> DescriptionOf(DropFirst(message, after + gap - 1))]
       ELSE [ok |-> FALSE, type |-> <<>>, scope |-> NoScope, description |-> <<>>]

OtherType == <<"o", "t", "h", "e", "r">>

\* parse_commit_message with the type word kept as written
parse_commit_message_cased(message) ==
    LET match == ConventionalMatch(message)
    IN [type |-> IF match.ok THEN match.type ELSE OtherType,
        scope |-> IF match.ok THEN match.scope ELSE NoScope,
        description |-> IF match.ok THEN match.description ELSE message,
        is_trivial |-> IsTrivial(message)]

parse_commit_message(message) ==
    LET match == ConventionalMatch(message)
    IN [type |-> IF match.ok THEN lower(match.type) ELSE OtherType,
        scope |-> IF match.ok THEN match.scope ELSE NoScope,
        description |-> IF match.ok THEN match.description ELSE message,
        is_trivial |-> IsTrivial(message)]

----------------------------------------------------------------------------
(* One commit message classified and keyed: SpecClassify                   *)

TypeWords ==
    { <<"f", "e", "a", "t">>,
      <<"F", "i", "x">>,
      <<"w", "i", "p">> }
ScopeTexts ==
    { <<>>,
      <<"(", "u", "i", ")">>,
      <<"(", ")">> }
Separators ==
    { <<":">>,
      <<":", SP>>,
      <<SP, ":", SP, SP>>,
      <<SP>> }
DescriptionTexts ==
    { <<>>,
      <<"x">>,
      <<"a", "d", "d", SP, "l", "o", "g", "i", "n">>,
      <<SP>> }

\* a type word, a scope, a separator and a description put together
ShapedMessages ==
    {t \o sc \o sep \o de :
        t \in TypeWords, sc \in ScopeTexts, sep \in Separators, de \in DescriptionTexts}

\* messages of the trivial kinds and their near misses, the empty message
SampleMessages ==
    { <<>>,
      <<"f", "i", "x", SP, "t", "y", "p", "o">>,
      <<"W", "I", "P">>,
      <<"M", "e", "r", "g", "e", SP, "b", "r", "a", "n", "c", "h", SP, "'", "x", "'">>,
      <<"u", "p", "d", "a", "t", "e", SP, "R", "E", "A", "D", "M", "E">>,
      <<"f", "e", "a", "t", ":", SP, "a", "d", "d", SP, "l", "o", "g", "i", "n">>,
      <<SP, SP, "F", "i", "x", SP, SP, "T", "y", "p", "o", SP, "i", "n", SP, "d", "o", "c", "s">>,
      <<"t", "y", "p", "o", "g", "r", "a", "p", "h", "y">>,
      <<"f", "i", "x", "t", "y", "p", "o">>,
      <<"m", "e", "r", "g", "e", "b", "r", "a", "n", "c", "h">>,
      <<"m", "e", "r", "g", "e", SP, "\t", SP, "b", "r", "a", "n", "c", "h", SP, "x">>,
      <<"m", "e", "r", "g", "e", SP, "p", "u", "l", "l", SP, SP, "r", "e", "q", "u", "e", "s", "t", SP, "1">>,
      <<"m", "e", "r", "g", "e", SP, "p", "u", "l", "l">>,
      <<"u", "p", "d", "a", "t", "e", "r", "e", "a", "d", "m", "e">>,
      <<"U", "p", "d", "a", "t", "e", SP, SP, "C", "h", "a", "n", "g", "e", "L", "o", "g">>,
      <<"u", "p", "d", "a", "t", "e", SP, "d", "o", "c", "s">>,
      <<"w", "i", "p", SP, "i", "t">>,
      <<"w", "i", "p", ":">>,
      <<"W", "i", "p", ":", SP, "x">>,
      <<"s", "t", "y", "l", "e", ":", SP, "x">>,
      <<"s", "t", "y", "l", "e">>,
      <<"F", "o", "r", "m", "a", "t", SP, "c", "o", "d", "e">>,
      <<"x", ":", SP, "l", "i", "n", "t">>,
      <<"l", "i", "n", "t", "i", "n", "g">>,
      <<"a", SP, "t", "y", "p", "o">>,
      <<"f", "e", "a", "t", "(", "a", ":", "b", ")", ":", SP, "x">>,
      <<"f", "e", "a", "t", "(", "a", ")", "(", "b", ")", ":", SP, "x">>,
      <<"a", SP, "b", ":", SP, "c">>,
      <<"f", "e", "a", "t", ":", SP, "x", ":", SP, "y">>,
      <<"Deng", ":", SP, "Lu">> }

\* messages with words of both scripts, short words and stop words
KeyMessages ==
    { <<"f", "i", "x", ":", SP, "b", "u", "g", SP, "Deng", "Lu">>,
      <<"f", "e", "a", "t", ":", SP, "a", "d", "d", SP, "l", "o", "g", "i", "n", SP, "p", "a", "g", "e", SP, "Deng", "Lu">>,
      <<"f", "i", "x", ":", SP, "Deng", "Lu", SP, "b", "u", "g">>,
      <<"t", "h", "e", SP, "f", "i", "x">>,
      <<"v", "2">>,
      <<"f", "e", "a", "t", ":", SP, "T", "h", "e", SP, "O", "A", "u", "t", "h", SP, "a", "n", "d", SP, "a", "b", SP, "l", "o", "g", "i", "n">>,
      <<"a", "d", "d", SP, "l", "o", "g", "i", "n", SP, "p", "a", "g", "e", SP, "v", "i", "e", "w">>,
      <<"f", "e", "a", "t", ":", SP, "Deng", "Lu", "b", "u", "g">>,
      <<"F", "o", "r", SP, "T", "H", "I", "S">>,
      <<"f", "e", "a", "t", ":", SP, "a", "d", "d", SP, SP, "l", "o", "g", "i", "n">> }

ClassifyMessages == ShapedMessages \cup SampleMessages \cup KeyMessages

ClassifyInit ==
    /\ pc = "init"
    /\ commitMessage \in ClassifyMessages
    /\ summaryText = <<>>
    /\ IdleParse
    /\ IdleMerge
    /\ IdleStore
    /\ IdleTrip
    /\ IdleRace
    /\ IdleGen
    /\ IdleConf
    /\ IdleDoc
    /\ IdleHeap

\* parse_commit_message(message)
ParseCommit ==
    /\ pc = "init"
    /\ parsedCommit' = parse_commit_message(commitMessage)
    /\ pc' = "classified"
    /\ UNCHANGED <<keywordList, keyText, mergeVars, storeVars, tripVars, raceVars,
                   genVars, sumVars, confVars, docVars, heapVars>>

\* keywords = extract_keywords(commit["message"]) and the str_key made of them
ExtractKey ==
    /\ pc = "init"
    /\ keywordList' = extract_keywords(commitMessage)
    /\ keyText' = str_key(commitMessage)
    /\ pc' = "keyed"
    /\ UNCHANGED <<parsedCommit, mergeVars, storeVars, tripVars, raceVars,
                   genVars, sumVars, confVars, docVars, heapVars>>

ClassifyNext == ParseCommit \/ ExtractKey

SpecClassify == ClassifyInit /\ [][ClassifyNext]_vars

----------------------------------------------------------------------------
(* What the claims about the classifier speak of                           *)

AllSpace(s, from, to) == \A i \in from..to : IsSpace(s[i])

\* the ways to read a message as type(scope): description, each given by the
\* end of the type word, the position after the scope, the position of the
\* colon and the start of the description
Readings(m) ==
    UNION {UNION {UNION {
        {[w |-> w, p |-> p, c |-> c, de |-> de] :
            de \in {u \in (c + 1)..Len(m) :
                      /\ AllSpace(m, c + 1, u - 1)
                      /\ \A i \in u..(Len(m) - 1) : m[i] # NL
                      /\ m[Len(m)] = NL => u < Len(m)}} :
          c \in {k \in p..Len(m) : AllSpace(m, p, k - 1) /\ m[k] = ":"}} :
         p \in {w + 1} \cup {q \in (w + 4)..Len(m) :
                               /\ m[w + 1] = "("
                               /\ m[q - 1] = ")"
                               /\ \A i \in (w + 2)..(q - 2) : m[i] # ")"}} :
        w \in {v \in 1..Len(m) : \A i \in 1..v : IsWord(m[i])}}

\* the reading the pattern takes: the whitespace after the colon is not
\* part of the description unless nothing else is left
Reading(m) == CHOOSE r \in Readings(m) : \A o \in Readings(m) : o.de <= r.de

WithoutLineEnd(s) ==
    IF s # <<>> /\ s[Len(s)] = NL THEN SubSeq(s, 1, Len(s) - 1) ELSE s

\* C22: parse_commit_message is total and deterministic. When the message
\* has the shape type(scope): description, type is the lower-cased type word,
\* scope the text between the parentheses or absent, and description the
\* remainder after the colon and the whitespace that follows it; otherwise
\* type is "other", scope is absent and description is the message
\* unmodified. The empty message gives "other", "", not trivial.
C22_ParseCommit ==
    pc = "classified" =>
        LET m == commitMessage
        IN /\ IF Readings(m) # {}
              THEN LET r == Reading(m)
                   IN /\ parsedCommit.type = lower(SubSeq(m, 1, r.w))
                      /\ parsedCommit.scope =
                            IF r.p = r.w + 1 THEN NoScope
                            ELSE Scope(SubSeq(m, r.w + 2, r.p - 2))
                      /\ parsedCommit.description
                            = WithoutLineEnd(SubSeq(m, r.de, Len(m)))
              ELSE /\ parsedCommit.type = OtherType
                   /\ parsedCommit.scope = NoScope
                   /\ parsedCommit.description = m
           /\ m = <<>> =>
                 parsedCommit = [type |-> OtherType, scope |-> NoScope,
                                 description |-> <<>>, is_trivial |-> FALSE]

\* a message with an upper-case letter in its type, a scope and whitespace
\* on both sides of the colon
C22_Witness ==
    /\ pc = "classified"
    /\ commitMessage = <<"F", "i", "x", "(", "u", "i", ")", SP, ":", SP, SP, "a", "d", "d", SP, "l", "o", "g", "i", "n">>
    /\ parsedCommit.type = <<"f", "i", "x">>
    /\ parsedCommit.scope = Scope(<<"u", "i">>)
    /\ parsedCommit.description = <<"a", "d", "d", SP, "l", "o", "g", "i", "n">>

\* t with its whitespace at the start removed, when it has at least n of it
AfterSpace(t, n) ==
    IF Len(t) - Len(lstrip(t)) >= n THEN lstrip(t) ELSE <<NL>>

BeginsWith(t, word) == startswith(t, word)

\* what follows the word at the start of t, a line break when t does not
\* begin with it
After(t, word) == IF startswith(t, word) THEN DropFirst(t, Len(word)) ELSE <<NL>>

\* the message, lower-cased and trimmed, is of one of the trivial kinds
TrivialKind(m) ==
    LET t == strip(lower(m))
    IN \/ BeginsWith(AfterSpace(After(t, <<"f", "i", "x">>), 0), <<"t", "y", "p", "o">>)
       \/ BeginsWith(t, <<"t", "y", "p", "o">>)
       \/ BeginsWith(AfterSpace(After(t, <<"u", "p", "d", "a", "t", "e">>), 0), <<"r", "e", "a", "d", "m", "e">>)
       \/ BeginsWith(AfterSpace(After(t, <<"u", "p", "d", "a", "t", "e">>), 0), <<"c", "h", "a", "n", "g", "e", "l", "o", "g">>)
       \/ BeginsWith(AfterSpace(After(t, <<"m", "e", "r", "g", "e">>), 1), <<"b", "r", "a", "n", "c", "h">>)
       \/ BeginsWith(AfterSpace(After(AfterSpace(After(t, <<"m", "e", "r", "g", "e">>), 1),
                                      <<"p", "u", "l", "l">>), 1), <<"r", "e", "q", "u", "e", "s", "t">>)
       \/ t = <<"w", "i", "p">>
       \/ BeginsWith(t, <<"w", "i", "p", ":">>)
       \/ BeginsWith(t, <<"f", "o", "r", "m", "a", "t">>)
       \/ BeginsWith(t, <<"l", "i", "n", "t">>)
       \/ BeginsWith(t, <<"s", "t", "y", "l", "e", ":">>)

\* C23: parse_commit_message sets is_trivial exactly when the lower-cased,
\* trimmed message matches, at its start, one of the fixed trivial patterns,
\* whatever the conventional parse gives; "fix typo", "WIP",
\* "Merge branch 'x'" and "update README" are trivial, "feat: add login" is not.
C23_TrivialExactly ==
    pc = "classified" =>
        /\ parsedCommit.is_trivial = TrivialKind(commitMessage)
        /\ commitMessage \in { <<"f", "i", "x", SP, "t", "y", "p", "o">>,
                             <<"W", "I", "P">>,
                             <<"M", "e", "r", "g", "e", SP, "b", "r", "a", "n", "c", "h", SP, "'", "x", "'">>,
                             <<"u", "p", "d", "a", "t", "e", SP, "R", "E", "A", "D", "M", "E">> }
              => parsedCommit.is_trivial
        /\ commitMessage = <<"f", "e", "a", "t", ":", SP, "a", "d", "d", SP, "l", "o", "g", "i", "n">> => ~parsedCommit.is_trivial

\* a message that is trivial only once lower-cased and trimmed, another that
\* is trivial and has a conventional type
C23_Witness ==
    /\ pc = "classified"
    /\ commitMessage \in { <<SP, SP, "F", "i", "x", SP, SP, "T", "y", "p", "o", SP, "i", "n", SP, "d", "o", "c", "s">>,
                         <<"W", "i", "p", ":", SP, "x">> }
    /\ parsedCommit.is_trivial

\* the runs of CJK characters and the runs of letters of a text, both kinds
\* together in their order of appearance
RECURSIVE TokensFrom(_, _)
TokensFrom(s, cur) ==
    IF s = <<>> THEN (IF cur # <<>> THEN <<cur>> ELSE <<>>)
    ELSE IF cur # <<>> /\ ((IsCjk(Head(s)) /\ IsCjk(cur[1]))
                            \/ (IsAlpha(Head(s)) /\ IsAlpha(cur[1])))
    THEN TokensFrom(Tail(s), Append(cur, Head(s)))
    ELSE (IF cur # <<>> THEN <<cur>> ELSE <<>>)
         \o TokensFrom(Tail(s), IF IsCjk(Head(s)) \/ IsAlpha(Head(s)) THEN <<Head(s)>> ELSE <<>>)

\* the first three of them after the alphabetic ones shorter than three
\* letters and the stop words are dropped, the alphabetic ones lower-cased
FirstThreeTokens(m) ==
    LET tokens == TokensFrom(DropFirst(m, PrefixLen(m)), <<>>)
        kept == SelectSeq([i \in 1..Len(tokens) |-> lower(tokens[i])],
                          LAMBDA k : (IsCjk(k[1]) \/ Len(k) >= 3) /\ k \notin StopWords)
    IN SubSeq(kept, 1, IF Len(kept) < 3 THEN Len(kept) ELSE 3)

\* C27: the keyword key of a commit is built from at most 3 tokens, the
\* first three in order of appearance in the cleaned description, taken over
\* CJK runs and alphabetic tokens of three letters or more together, the
\* alphabetic ones lower-cased, the stop words dropped; a commit with no such
\* token is keyed by its full message.
C27_KeyTokens ==
    pc = "keyed" =>
        /\ Len(keywordList) <= 3
        /\ keywordList = FirstThreeTokens(commitMessage)
        /\ keywordList = <<>> => keyText = commitMessage

----------------------------------------------------------------------------
(* The parser on a stored document edited by hand: SpecParse               *)

\* lines in one document, at most
MaxLines == 4

\* a blank line, a title, labels (one with a space after it), entry bullets,
\* a detail bullet, an indented line that is no bullet
LinePool ==
    { <<>>,
      <<"#", SP, "T">>,
      <<"A">>,
      <<"A", SP>>,
      <<"B">>,
      <<SP, SP, "-", SP, "x">>,
      <<SP, SP, "-", SP, "y">>,
      <<SP, SP, SP, SP, "-", SP, "d">>,
      <<SP, SP, SP, "z", SP>> }

DocTexts == {join(ls) : ls \in UNION {[1..n -> LinePool] : n \in 0..MaxLines}}

ParseInit ==
    /\ pc = "init"
    /\ docText \in DocTexts
    /\ docParsed = [preamble |-> <<>>, sections |-> <<>>]
    /\ IdleMerge
    /\ IdleStore
    /\ IdleTrip
    /\ IdleOthers
    /\ IdleParse
    /\ IdleConf
    /\ IdleHeap

\* _parse_report_markdown(content)
ParseDocument ==
    /\ pc = "init"
    /\ docParsed' = _parse_report_markdown(docText)
    /\ pc' = "parsed"
    /\ UNCHANGED <<docText, mergeVars, storeVars, tripVars, raceVars, genVars,
                   sumVars, parseVars, confVars, heapVars>>

SpecParse == ParseInit /\ [][ParseDocument]_vars

----------------------------------------------------------------------------
(* What the claims about the parser speak of                               *)

IsBlankLine(l) == strip(l) = <<>>
IsIndented(l) == ~IsBlankLine(l) /\ startswith(l, <<SP>>)
IsEntryLine(l) == ~IsBlankLine(l) /\ startswith(l, EntryMark)
IsDetailLine(l) == ~IsBlankLine(l) /\ startswith(l, DetailMark)

\* line i ends the preamble: it is indented and an entry bullet, or it is
\* not blank, not indented and no '#' line
EndsPreamble(ls, i) ==
    \/ IsEntryLine(ls[i])
    \/ ~IsBlankLine(ls[i]) /\ ~IsIndented(ls[i]) /\ ~startswith(ls[i], HeadingMark)

\* line i comes after the preamble
AfterPreamble(ls, i) == \E j \in 1..(i - 1) : EndsPreamble(ls, j)

\* line i is the label line of a section
IsLabelLine(ls, i) ==
    /\ ~IsBlankLine(ls[i])
    /\ ~IsIndented(ls[i])
    /\ ~startswith(ls[i], HeadingMark) \/ AfterPreamble(ls, i)

\* the label of the section line i is in: that of the last label line
\* before it, the reserved label when there is none
LabelAt(ls, i) ==
    IF \E j \in 1..(i - 1) : IsLabelLine(ls, j)
    THEN strip(ls[CHOOSE j \in 1..(i - 1) :
                     IsLabelLine(ls, j) /\ \A k \in (j + 1)..(i - 1) : ~IsLabelLine(ls, k)])
    ELSE OtherLabel

\* the entry bullet line that line i is read under, 0 when no entry is open
OpenAt(ls, i) ==
    IF \E j \in 1..(i - 1) :
          IsEntryLine(ls[j]) /\ \A k \in (j + 1)..(i - 1) : ~IsLabelLine(ls, k)
    THEN CHOOSE j \in 1..(i - 1) :
            /\ IsEntryLine(ls[j])
            /\ \A k \in (j + 1)..(i - 1) : ~IsLabelLine(ls, k) /\ ~IsEntryLine(ls[k])
    ELSE 0

\* the place of entry bullet line j in the result: its section and its rank
\* among the bullet lines of that label
PlaceOf(ls, j) ==
    [label |-> LabelAt(ls, j),
     rank |-> Cardinality({k \in 1..j : IsEntryLine(ls[k]) /\ LabelAt(ls, k) = LabelAt(ls, j)})]

EntryAtPlace(doc, place) ==
    doc.sections[IndexOf(doc.sections, place.label)].entries[place.rank]

HasPlace(doc, place) ==
    /\ IndexOf(doc.sections, place.label) # 0
    /\ place.rank <= Len(doc.sections[IndexOf(doc.sections, place.label)].entries)

\* the details the lines after bullet line j give its entry
RECURSIVE DetailsUnder(_, _, _)
DetailsUnder(ls, j, i) ==
    IF i > Len(ls) \/ IsLabelLine(ls, i) \/ IsEntryLine(ls[i]) THEN <<>>
    ELSE (IF IsBlankLine(ls[i]) THEN <<>>
          ELSE IF IsDetailLine(ls[i]) THEN <<strip(DropFirst(ls[i], 6))>>
          ELSE <<strip(ls[i])>>)
         \o DetailsUnder(ls, j, i + 1)

\* C24: the parser is lenient and total. It returns a preamble and sections
\* for every text, and every indented line that is neither an entry bullet
\* nor a detail bullet, read while an entry is open, is one more detail, in
\* trimmed form, of that entry: the details of the entry are exactly what the
\* lines under its bullet give, in order.
C24_LenientParse ==
    pc = "parsed" =>
        LET ls == splitlines(docText)
        IN /\ DOMAIN docParsed = {"preamble", "sections"}
           /\ \A i \in 1..Len(ls) :
                 (/\ IsIndented(ls[i]) /\ ~IsEntryLine(ls[i]) /\ ~IsDetailLine(ls[i])
                  /\ OpenAt(ls, i) # 0)
                    => /\ HasPlace(docParsed, PlaceOf(ls, OpenAt(ls, i)))
                       /\ EntryAtPlace(docParsed, PlaceOf(ls, OpenAt(ls, i))).details
                             = DetailsUnder(ls, OpenAt(ls, i), OpenAt(ls, i) + 1)
                       /\ strip(ls[i]) \in
                             Range(EntryAtPlace(docParsed, PlaceOf(ls, OpenAt(ls, i))).details)

\* an indented line that is no bullet follows a detail bullet under an entry
C24_Witness ==
    /\ pc = "parsed"
    /\ docText = join(<<A, Ex, Dd, <<SP, SP, SP, "z", SP>>>>)
    /\ docParsed.sections = <<Section(A, <<ReportEntry(x, <<d, <<"z">>>>)>>)>>

\* the labels of the label lines and of the bullet lines before any label,
\* each at its first occurrence
RECURSIVE LabelsFrom(_, _)
LabelsFrom(ls, i) ==
    IF i > Len(ls) THEN <<>>
    ELSE LET l == IF IsLabelLine(ls, i) THEN <<strip(ls[i])>>
                  ELSE IF IsEntryLine(ls[i]) THEN <<LabelAt(ls, i)>>
                  ELSE <<>>
         IN l \o LabelsFrom(ls, i + 1)

\* the summaries of the bullet lines read under a label, in order
RECURSIVE SummariesUnder(_, _, _)
SummariesUnder(ls, label, i) ==
    IF i > Len(ls) THEN <<>>
    ELSE (IF IsEntryLine(ls[i]) /\ LabelAt(ls, i) = label
          THEN <<strip(DropFirst(ls[i], 4))>> ELSE <<>>)
         \o SummariesUnder(ls, label, i + 1)

\* C25: a non-indented non-blank line after the preamble opens the section
\* whose label is the trimmed line; when the label comes again no second
\* section is made, the entries that follow are appended in order after those
\* already collected for the label, and the section keeps the place of its
\* first occurrence.
C25_RepeatedLabel ==
    pc = "parsed" =>
        LET ls == splitlines(docText)
            secs == docParsed.sections
        IN /\ Labels(secs) = FirstOccurrences(LabelsFrom(ls, 1))
           /\ \A i \in 1..Len(secs) :
                 [k \in 1..Len(secs[i].entries) |-> secs[i].entries[k].summary]
                    = SummariesUnder(ls, secs[i].label, 1)

\* a label, an entry, the label again with a space after it, another entry
C25_Witness ==
    /\ pc = "parsed"
    /\ docText = join(<<A, Ex, A \o <<SP>>, Ey>>)
    /\ docParsed.sections
          = <<Section(A, <<ReportEntry(x, <<>>), ReportEntry(y, <<>>)>>)>>

\* a label comes again after another label: its section stays first
C25_OrderWitness ==
    /\ pc = "parsed"
    /\ docText = join(<<A, B, A, Ex>>)
    /\ docParsed.sections = <<Section(A, <<ReportEntry(x, <<>>)>>), Section(B, <<>>)>>

\* the details of all the entries of a document
AllDetails(doc) ==
    UNION {UNION {Range(doc.sections[i].entries[k].details) :
                     k \in 1..Len(doc.sections[i].entries)} :
              i \in 1..Len(doc.sections)}

AllSummaries(doc) ==
    UNION {{doc.sections[i].entries[k].summary : k \in 1..Len(doc.sections[i].entries)} :
              i \in 1..Len(doc.sections)}

\* C30: the parser loses no content line: every non-blank line of the
\* text is in the result as a preamble line, a section label, an entry
\* summary or a detail, the indented lines that follow a section label or
\* come before the first section included.
C30_NoLineLost ==
    pc = "parsed" =>
        LET ls == splitlines(docText)
        IN \A i \in 1..Len(ls) :
              ~IsBlankLine(ls[i]) =>
                 \/ ls[i] \in Range(docParsed.preamble)
                 \/ strip(ls[i]) \in Range(Labels(docParsed.sections))
                 \/ IsEntryLine(ls[i])
                       /\ strip(DropFirst(ls[i], 4)) \in AllSummaries(docParsed)
                 \/ IsDetailLine(ls[i])
                       /\ strip(DropFirst(ls[i], 6)) \in AllDetails(docParsed)
                 \/ strip(ls[i]) \in AllDetails(docParsed)

----------------------------------------------------------------------------
(* The repositories of the configuration: SpecConfig                       *)

\* add_repo and remove_repo calls in a row, at most
MaxOps == 4

RepoNames == {"alpha", "beta", "gamma"}
RepoPaths == {"/p", "/q"}

Repo(name, path) == [name |-> name, path |-> path]

\* DEFAULT_CONFIG: no repository
DEFAULT_CONFIG == [repos |-> <<>>]

\* add_repo that appends without looking for the name
add_repo_append(cfg, name, path) ==
    [cfg EXCEPT !.repos = Append(@, Repo(name, path))]

\* add_repo: the path of the first repository of that name is updated, a
\* repository is appended when there is none
add_repo(cfg, name, path) ==
    IF \E i \in 1..Len(cfg.repos) : cfg.repos[i].name = name
    THEN LET i == CHOOSE k \in 1..Len(cfg.repos) :
                    /\ cfg.repos[k].name = name
                    /\ \A j \in 1..(k - 1) : cfg.repos[j].name # name
         IN [cfg EXCEPT !.repos[i].path = path]
    ELSE [cfg EXCEPT !.repos = Append(@, Repo(name, path))]

remove_repo(cfg, name) ==
    [cfg EXCEPT !.repos = SelectSeq(@, LAMBDA r : r.name # name)]

ConfigInit ==
    /\ pc = "init"
    /\ config = DEFAULT_CONFIG
    /\ configBefore = DEFAULT_CONFIG
    /\ opName = <<>>
    /\ opPath = <<>>
    /\ nops = 0
    /\ IdleMerge
    /\ IdleStore
    /\ IdleTrip
    /\ IdleOthers
    /\ IdleParse
    /\ IdleDoc
    /\ IdleHeap

\* add_repo(config, name, path)
AddRepo ==
    /\ nops < MaxOps
    /\ \E name \in RepoNames, path \in RepoPaths :
        /\ config' = add_repo(config, name, path)
        /\ opName' = name
        /\ opPath' = path
    /\ configBefore' = config
    /\ nops' = nops + 1
    /\ pc' = "added"
    /\ UNCHANGED <<mergeVars, storeVars, tripVars, raceVars, genVars, sumVars,
                   parseVars, docVars, heapVars>>

\* remove_repo(config, name)
RemoveRepo ==
    /\ nops < MaxOps
    /\ \E name \in RepoNames :
        /\ config' = remove_repo(config, name)
        /\ opName' = name
    /\ configBefore' = config
    /\ nops' = nops + 1
    /\ pc' = "removed"
    /\ UNCHANGED <<opPath, mergeVars, storeVars, tripVars, raceVars, genVars, sumVars,
                   parseVars, docVars, heapVars>>

ConfigNext == AddRepo \/ RemoveRepo

SpecConfig == ConfigInit /\ [][ConfigNext]_vars

NamesOf(cfg) == {cfg.repos[i].name : i \in 1..Len(cfg.repos)}

\* the repositories of a config but the one of a name, in their order
RECURSIVE OthersFrom(_, _, _)
OthersFrom(repos, name, i) ==
    IF i > Len(repos) THEN <<>>
    ELSE (IF repos[i].name = name THEN <<>> ELSE <<repos[i]>>)
         \o OthersFrom(repos, name, i + 1)

C26_RemoveWitness ==
    /\ pc = "removed"
    /\ Len(configBefore.repos) = 3
    /\ configBefore.repos[2].name = opName
    /\ config.repos = <<configBefore.repos[1], configBefore.repos[3]>>

----------------------------------------------------------------------------
(* _merge_sections on objects: SpecHeap                                    *)

\* The heap is a sequence of objects and the address of an object is its
\* index. A list object holds its items: strings for a details list,
\* addresses of entry objects for the list of a section. An entry object
\* holds its summary and the address of its details list. A dict is the
\* sequence of its items, each a label and the address of a list of entries.
ListObject(items) == [kind |-> "list", items |-> items]
EntryObject(summary, details) ==
    [kind |-> "entry", summary |-> summary, details |-> details]

Ref(h, ref) == [heap |-> h, ref |-> ref]

DetailsAt(h, a) == h[h[a].details].items

\* the entry object itself in place of a copy of it
CopyEntry_shared(h, a) == Ref(h, a)

\* ReportEntry(e.summary, list(e.details)): a new list, a new entry
CopyEntry(h, a) ==
    LET h1 == Append(h, ListObject(DetailsAt(h, a)))
        h2 == Append(h1, EntryObject(h[a].summary, Len(h1)))
    IN Ref(h2, Len(h2))

\* [ReportEntry(e.summary, list(e.details)) for e in entries]: a new list of
\* new entries
RECURSIVE CopyEntries(_, _, _)
CopyEntries(h, addrs, refs) ==
    IF addrs = <<>>
    THEN Ref(Append(h, ListObject(refs)), Len(h) + 1)
    ELSE LET c == CopyEntry(h, Head(addrs))
         IN CopyEntries(c.heap, Tail(addrs), Append(refs, c.ref))

\* the first loop: every section of existing, in its order
RECURSIVE CopyExisting(_, _, _)
CopyExisting(h, m, exist) ==
    IF exist = <<>> THEN [heap |-> h, merged |-> m]
    ELSE LET c == CopyEntries(h, h[Head(exist).entries].items, <<>>)
         IN CopyExisting(c.heap, Append(m, Section(Head(exist).label, c.ref)),
                         Tail(exist))

\* by_summary over the entry objects of a list: the place of the last entry
\* bearing the summary, 0 when absent
ObjectBySummary(h, items, summary) ==
    IF \E i \in 1..Len(items) : h[items[i]].summary = summary
    THEN CHOOSE i \in 1..Len(items) :
            /\ h[items[i]].summary = summary
            /\ \A j \in (i + 1)..Len(items) : h[items[j]].summary # summary
    ELSE 0

\* the loop over the entries of an incoming section already in merged:
\* target.details is bound to a new list, or a copy of the entry is appended
\* to the list of merged
RECURSIVE MergeObjects(_, _, _)
MergeObjects(h, list, news) ==
    IF news = <<>> THEN h
    ELSE LET entry == Head(news)
             items == h[list].items
             i == ObjectBySummary(h, items, h[entry].summary)
         IN IF i # 0
            THEN LET target == items[i]
                     h1 == Append(h, ListObject(_dedupe_preserve_order(
                               DetailsAt(h, target) \o DetailsAt(h, entry))))
                 IN MergeObjects([h1 EXCEPT ![target].details = Len(h1)],
                                 list, Tail(news))
            ELSE LET c == CopyEntry(h, entry)
                 IN MergeObjects(
                        [c.heap EXCEPT ![list].items = Append(@, c.ref)],
                        list, Tail(news))

\* the second loop: every section of new, in its order
RECURSIVE MergeNewObjects(_, _, _)
MergeNewObjects(h, m, new) ==
    IF new = <<>> THEN [heap |-> h, merged |-> m]
    ELSE LET sec == Head(new)
             i == IndexOf(m, sec.label)
         IN IF i = 0
            THEN LET c == CopyEntries(h, h[sec.entries].items, <<>>)
                 IN MergeNewObjects(c.heap, Append(m, Section(sec.label, c.ref)),
                                    Tail(new))
            ELSE MergeNewObjects(
                     MergeObjects(h, m[i].entries, h[sec.entries].items),
                     m, Tail(new))

\* entry.details = _dedupe_preserve_order(entry.details), for the entries of
\* one list
RECURSIVE DedupeObjects(_, _)
DedupeObjects(h, addrs) ==
    IF addrs = <<>> THEN h
    ELSE LET h1 == Append(h, ListObject(_dedupe_preserve_order(
                       DetailsAt(h, Head(addrs)))))
         IN DedupeObjects([h1 EXCEPT ![Head(addrs)].details = Len(h1)],
                          Tail(addrs))

\* the last loop: every section of merged
RECURSIVE DedupeAllObjects(_, _, _)
DedupeAllObjects(h, m, i) ==
    IF i > Len(m) THEN h
    ELSE DedupeAllObjects(DedupeObjects(h, h[m[i].entries].items), m, i + 1)

\* _merge_sections(existing, new) on the heap: the heap after the call and
\* the dict returned
merge_sections_objects(h, exist, new) ==
    LET first == CopyExisting(h, <<>>, exist)
        second == MergeNewObjects(first.heap, first.merged, new)
    IN [heap |-> DedupeAllObjects(second.heap, second.merged, 1),
        merged |-> second.merged]

\* the objects the parser builds for the sections of one document
RECURSIVE NewEntries(_, _, _)
NewEntries(h, entries, refs) ==
    IF entries = <<>>
    THEN Ref(Append(h, ListObject(refs)), Len(h) + 1)
    ELSE LET h1 == Append(h, ListObject(Head(entries).details))
             h2 == Append(h1, EntryObject(Head(entries).summary, Len(h1)))
         IN NewEntries(h2, Tail(entries), Append(refs, Len(h2)))

RECURSIVE NewSections(_, _, _)
NewSections(h, m, sections) ==
    IF sections = <<>> THEN [heap |-> h, merged |-> m]
    ELSE LET c == NewEntries(h, Head(sections).entries, <<>>)
         IN NewSections(c.heap, Append(m, Section(Head(sections).label, c.ref)),
                        Tail(sections))

\* the sections a dict of the heap stands for
EntriesValue(h, list) ==
    [i \in 1..Len(h[list].items) |->
        ReportEntry(h[h[list].items[i]].summary, DetailsAt(h, h[list].items[i]))]

SectionsValue(h, m) ==
    [i \in 1..Len(m) |-> Section(m[i].label, EntriesValue(h, m[i].entries))]

\* parsed entries: two of one summary, one with a stale duplicate and a blank
\* detail
ObjectEntryPool ==
    { ReportEntry(x, <<d>>),
      ReportEntry(x, <<e, <<SP, "d">> >>),
      ReportEntry(y, <<d, <<>>, d>>) }

ObjectEntrySeqs == UNION {[1..k -> ObjectEntryPool] : k \in 0..MaxEntries}

ObjectDocs ==
    {<<>>}
    \cup {<<Section(l, es)>> : l \in LabelPool, es \in ObjectEntrySeqs}
    \cup {<<Section(p[1], q[1]), Section(p[2], q[2])>> :
            p \in {r \in LabelPool \X LabelPool : r[1] # r[2]},
            q \in {r \in ObjectEntrySeqs \X ObjectEntrySeqs :
                       Len(r[1]) + Len(r[2]) <= MaxEntries}}

\* the two arguments as merge_report_content parses them, sharing no object
HeapInit ==
    /\ pc = "init"
    /\ \E exist \in ObjectDocs, new \in ObjectDocs :
         LET first == NewSections(<<>>, <<>>, exist)
             second == NewSections(first.heap, <<>>, new)
         IN /\ heap = second.heap
            /\ argExisting = first.merged
            /\ argNew = second.merged
    /\ heapBefore = heap
    /\ resultRef = <<>>
    /\ IdleMerge
    /\ IdleStore
    /\ IdleTrip
    /\ IdleOthers
    /\ IdleParse
    /\ IdleConf
    /\ IdleDoc

\* merged_sections = _merge_sections(existing_sections, new_sections)
MergeSections ==
    /\ pc = "init"
    /\ LET r == merge_sections_objects(heap, argExisting, argNew)
       IN /\ heap' = r.heap
          /\ resultRef' = r.merged
    /\ heapBefore' = heap
    /\ pc' = "merged"
    /\ UNCHANGED <<argExisting, argNew, mergeVars, storeVars, tripVars, raceVars,
                   genVars, sumVars, parseVars, confVars, docVars>>

HeapNext == MergeSections

SpecHeap == HeapInit /\ [][HeapNext]_vars

\* the addresses of the lists of entries, of the entries and of the details
\* lists a dict reaches in a heap
ListsOf(m) == {m[i].entries : i \in 1..Len(m)}
EntryObjectsOf(h, m) == UNION {Range(h[l].items) : l \in ListsOf(m)}
DetailsListsOf(h, m) == {h[a].details : a \in EntryObjectsOf(h, m)}
ObjectsOf(h, m) == ListsOf(m) \cup EntryObjectsOf(h, m) \cup DetailsListsOf(h, m)

\* C28: _merge_sections leaves both arguments unchanged: after the call every
\* list of entries, every entry and every details list of existing and of new
\* is the object it was before the call, with the same content, so that both
\* stand for the same sections; and no entry object of the result is an entry
\* object of either argument.
C28_ArgumentsUnchanged ==
    pc = "merged" =>
        LET args == ObjectsOf(heapBefore, argExisting) \cup ObjectsOf(heapBefore, argNew)
        IN /\ \A a \in args : heap[a] = heapBefore[a]
           /\ SectionsValue(heap, argExisting) = SectionsValue(heapBefore, argExisting)
           /\ SectionsValue(heap, argNew) = SectionsValue(heapBefore, argNew)
           /\ EntryObjectsOf(heap, resultRef)
                 \cap (EntryObjectsOf(heap, argExisting) \cup EntryObjectsOf(heap, argNew)) = {}
           /\ ListsOf(resultRef) \cap (ListsOf(argExisting) \cup ListsOf(argNew)) = {}

\* the call merged the details of an entry of new into those of an entry of
\* existing and appended another entry of new to the same section
C28_Witness ==
    /\ pc = "merged"
    /\ \E i \in 1..Len(argExisting), j \in 1..Len(argNew) :
        /\ argExisting[i].label = argNew[j].label
        /\ \E a \in Range(heap[argExisting[i].entries].items),
              b \in Range(heap[argNew[j].entries].items),
              c \in Range(heap[resultRef[i].entries].items) :
            /\ heap[a].summary = heap[b].summary
            /\ heap[c].summary = heap[a].summary
            /\ DetailsAt(heap, c) # DetailsAt(heap, a)
            /\ DetailsAt(heap, c) # DetailsAt(heap, b)
        /\ Len(heap[resultRef[i].entries].items) > Len(heap[argExisting[i].entries].items)

----------------------------------------------------------------------------
(* The same content saved again for a period: SpecRegen                    *)

\* a content with one summary on two bullets of a section, the first one
\* with a detail
RepeatedContent == join(<<A, Ex, Dd, Ex>>) \o <<NL>>

RegenContents == Contents \cup {RepeatedContent}

\* a report is stored for the period and a content is generated
RegenInit ==
    /\ pc = "init"
    /\ file \in Contents
    /\ content \in RegenContents
    /\ saved = {}
    /\ before = NoFile
    /\ nsaves = 0
    /\ kind \in {"week", "period"}
    /\ IdleMerge
    /\ IdleTrip
    /\ IdleOthers
    /\ IdleMore

SaveAgain ==
    /\ nsaves < MaxSaves
    /\ before' = file
    /\ file' = WriteReport(file, content)
    /\ saved' = saved \cup {content}
    /\ nsaves' = nsaves + 1
    /\ pc' = "merged"
    /\ UNCHANGED <<content, kind, mergeVars, tripVars, raceVars, genVars, sumVars, moreVars>>

\* save_report(content, year, week) with the content of the last call
SaveReportAgain == kind = "week" /\ SaveAgain

\* save_period_report(content, start_date, end_date) with the content of
\* the last call
SavePeriodReportAgain == kind = "period" /\ SaveAgain

RegenNext == SaveReportAgain \/ SavePeriodReportAgain

SpecRegen == RegenInit /\ [][RegenNext]_vars

\* C29: regenerating with the same content is a fixed point: once a content
\* has been merged into the stored report, saving the same content again
\* leaves the stored file as it was,
\* merge_report_content(merge_report_content(E, N), N) = merge_report_content(E, N).
C29_RegenerateFixedPoint == nsaves >= 2 => file = before

====
